---- MODULE Spec2Model ----
(***************************************************************************)
(* Batch translation pipeline of Subtitle-Translator:                      *)
(*   SubtitleProcessor (subtitle_processor.py) slices a subtitle document  *)
(*   into batches, hands every batch to GPTTranslator.translate            *)
(*   (translator.py), which subdivides it into sub-batches run by a thread *)
(*   pool, and finally writes the translated entries to the output file.   *)
(***************************************************************************)
EXTENDS Integers, Sequences, FiniteSets, TLC

(***************************************************************************)
(* Sizes.  The batch sizes of the code (50 entries per pipeline batch, 20  *)
(* texts per sub-batch) are scaled down, keeping the pipeline batch larger *)
(* than one sub-batch, so that documents of a few entries span several     *)
(* batches and sub-batches.                                                *)
(***************************************************************************)
MaxEntries == 4

processor_batch_size == 3

translator_batch_size == 2

max_tries == 5

max_workers == 3

\* outbound calls of one sub-batch are counted up to this number
MaxCallsCounted == 6

\* entries of the documents loaded from any path under any encoding outcome
MaxLoadEntries == 1

\* entries and batch sizes of the slicing loop taken on its own
MaxSliceEntries == 10

MaxSliceBatch == 5

\* translate() invocations on one processor
MaxRuns == 2

\* texts handed to GPTTranslator.translate taken on its own
MaxPoolTexts == 10

\* the rate gate: min_request_interval in clock ticks (0.05 s in the code),
\* the threads that call _rate_limit, the passes followed and the last tick
min_request_interval == 2

GateThreads == 3

MaxPasses == 4

MaxNow == 9

\* characters of a text given to _clean_subtitle_text taken on its own
MaxTextLen == 6

\* texts of a translate call that is answered by one outbound call
MaxReplyTexts == 5

\* the largest block limit a processor is constructed with
MaxBlockLimit == 5

\* entries of the documents of the runs followed to their end
MaxLiveEntries == 3

(***************************************************************************)
(* Generic helpers                                                         *)
(***************************************************************************)
Min(a, b) == IF a < b THEN a ELSE b

Range(s) == {s[i] : i \in 1..Len(s)}

Reverse(s) == [i \in 1..Len(s) |-> s[Len(s) + 1 - i]]

\* s[lo:hi] of Python, on a 1-based sequence: elements lo+1 .. hi
Slice(s, lo, hi) == SubSeq(s, lo + 1, Min(hi, Len(s)))

RECURSIVE InsertSorted(_, _)
\* put the pair x = <<key, value>> behind every pair of the sorted sequence s
\* whose key is <= the key of x
InsertSorted(s, x) ==
    IF s = <<>> THEN <<x>>
    ELSE IF s[Len(s)][1] <= x[1] THEN Append(s, x)
    ELSE Append(InsertSorted(SubSeq(s, 1, Len(s) - 1), x), s[Len(s)])

\* the list left as it is
SortPairsUnsorted(s) == s

RECURSIVE SortPairs(_)
\* list.sort(key=lambda x: x[0]) on <<key, value>> pairs: stable, ascending
SortPairs(s) ==
    IF s = <<>> THEN <<>>
    ELSE InsertSorted(SortPairs(SubSeq(s, 1, Len(s) - 1)), s[Len(s)])

RECURSIVE Zip(_, _)
\* zip(a, b): pairs up to the shorter of the two
Zip(a, b) ==
    IF a = <<>> \/ b = <<>> THEN <<>>
    ELSE <<<<a[1], b[1]>>>> \o Zip(Tail(a), Tail(b))

(***************************************************************************)
(* Strings are sequences of one-character strings.                         *)
(***************************************************************************)
UpperCase ==
    <<"A", "B", "C", "D", "E", "F", "G", "H", "I", "J", "K", "L", "M",
      "N", "O", "P", "Q", "R", "S", "T", "U", "V", "W", "X", "Y", "Z">>

LowerCase ==
    <<"a", "b", "c", "d", "e", "f", "g", "h", "i", "j", "k", "l", "m",
      "n", "o", "p", "q", "r", "s", "t", "u", "v", "w", "x", "y", "z">>

\* str.lower() on one character
LowerChar(c) ==
    IF \E i \in 1..Len(UpperCase) : UpperCase[i] = c
    THEN LowerCase[CHOOSE i \in 1..Len(UpperCase) : UpperCase[i] = c]
    ELSE c

\* str.lower()
Lower(str) == [i \in 1..Len(str) |-> LowerChar(str[i])]

\* str.endswith(suffix)
EndsWith(str, suffix) ==
    /\ Len(suffix) <= Len(str)
    /\ SubSeq(str, Len(str) - Len(suffix) + 1, Len(str)) = suffix

(***************************************************************************)
(* Texts.  A text is a record: toks is the character content as a sequence *)
(* of tokens ("w" a word, "sp" a whitespace character, "font" a <font ...> *)
(* tag, "efont" a </font> tag, "tag" any other <...> tag, "ass" an         *)
(* ASS-style {\...} block), prefix is the number n of a leading "[n] " (0  *)
(* when there is none), id tells the texts of different entries apart and  *)
(* lang is the language the text is written in.                            *)
(***************************************************************************)
Tokens == {"w", "sp", "font", "efont", "tag", "ass"}

RECURSIVE DropTokens(_, _)
\* re.sub(pattern, '', text) for the tags matched by the patterns
DropTokens(toks, drop) ==
    IF toks = <<>> THEN <<>>
    ELSE IF toks[1] \in drop THEN DropTokens(Tail(toks), drop)
    ELSE <<toks[1]>> \o DropTokens(Tail(toks), drop)

RECURSIVE JoinSplit(_, _)
\* ' '.join(text.split()): whitespace runs become one space; leading and
\* trailing whitespace goes (pending = a space is owed before the next word)
JoinSplit(toks, pending) ==
    IF toks = <<>> THEN <<>>
    ELSE IF toks[1] = "sp" THEN JoinSplit(Tail(toks), TRUE)
    ELSE (IF pending THEN <<"sp">> ELSE <<>>) \o <<toks[1]>>
             \o JoinSplit(Tail(toks), FALSE)

RECURSIVE StripLeading(_)
StripLeading(toks) ==
    IF toks # <<>> /\ toks[1] = "sp" THEN StripLeading(Tail(toks)) ELSE toks

\* SubtitleProcessor._clean_subtitle_text
_clean_subtitle_text(text) ==
    LET t1 == DropTokens(text.toks, {"font"})
        t2 == DropTokens(t1, {"efont"})
        t3 == DropTokens(t2, {"font", "efont", "tag"})
        t4 == StripLeading(JoinSplit(StripLeading(t3), FALSE))
    IN  [text EXCEPT !.toks = t4]

\* f"[{sub.index}] {cleaned_text}"
WithIndexPrefix(index, text) == [text EXCEPT !.prefix = index]

\* re.sub(r'^\[\d+\]\s*', '', trans_text)
StripIndexPrefix(text) ==
    IF text.prefix # 0
    THEN [text EXCEPT !.prefix = 0, !.toks = StripLeading(text.toks)]
    ELSE text

\* what the remote model answers for one text: the same text in the target
\* language (it keeps the "[n] " prefix the text came with)
Translation(text) == [text EXCEPT !.lang = "target"]

(***************************************************************************)
(* Documents: what pysrt.open returns for the input file.  Entry p of the  *)
(* file carries the timestamps of position p and one of a few index        *)
(* numberings; pysrt keeps the entries in file order with the indices      *)
(* found in the file.                                                      *)
(***************************************************************************)
SourceToks(p) ==
    CASE p % 4 = 1 -> <<"w">>
      [] p % 4 = 2 -> <<"ass", "font", "w", "efont">>
      [] p % 4 = 3 -> <<"w", "sp", "sp", "w">>
      [] OTHER     -> <<"tag", "w", "sp">>

SourceText(p) == [id |-> p, prefix |-> 0, toks |-> SourceToks(p), lang |-> "source"]

Numberings ==
    {"dense", "shifted", "gapped", "repeated", "reversed"}

IndexOf(numbering, p, n) ==
    CASE numbering = "dense"    -> p
      [] numbering = "shifted"  -> p + 2
      [] numbering = "gapped"   -> 2 * p
      [] numbering = "repeated" -> (p + 1) \div 2
      [] OTHER                  -> n + 1 - p

Document(numbering, n) ==
    [p \in 1..n |-> [index |-> IndexOf(numbering, p, n),
                     start |-> 10 * p,
                     end   |-> 10 * p + 5,
                     text  |-> SourceText(p)]]

Documents == {Document(nb, n) : nb \in Numberings, n \in 0..MaxEntries}

\* an output file left by an earlier run
OldFile ==
    <<[index |-> 1, start |-> 0, end |-> 1,
       text |-> [id |-> 0, prefix |-> 0, toks |-> <<"w">>, lang |-> "target"]]>>

(***************************************************************************)
(* GPTTranslator: one outbound call                                        *)
(***************************************************************************)
\* text_array = [{"id": i, "text": text} for i, text in enumerate(batch)]
TextArray(batch) == [i \in 1..Len(batch) |-> [id |-> i - 1, text |-> batch[i]]]

\* the complete answer to a request: every item, with the id it was sent with
Answer(text_array) ==
    [i \in 1..Len(text_array) |->
        [has_id |-> TRUE, id |-> text_array[i].id,
         has_text |-> TRUE, text |-> Translation(text_array[i].text)]]

Reply(items) == [raised |-> FALSE, json_ok |-> TRUE, has_key |-> TRUE, items |-> items]

\* what client.chat.completions.create can come back with for a request
Responses(text_array) ==
    LET full == Answer(text_array) IN
    { Reply(full),                                           \* complete, in order
      Reply(Reverse(full)),                                  \* complete, reordered
      Reply(SubSeq(full, 1, Len(full) - 1)),                 \* one item short
      Reply([full EXCEPT ![1].has_id = FALSE]),              \* an item without 'id'
      Reply([full EXCEPT ![1].has_text = FALSE]),            \* an item without 'text'
      [Reply(<<>>) EXCEPT !.has_key = FALSE],                \* no 'translations' key
      [Reply(<<>>) EXCEPT !.json_ok = FALSE],                \* content is not JSON
      [Reply(<<>>) EXCEPT !.raised = TRUE] }                 \* the call itself raises

\* the body of GPTTranslator._translate_batch on a response: the list of
\* (id, text) pairs it returns, or raised when it ends in `raise Exception`
ParseResponse(response) ==
    IF response.raised THEN [raised |-> TRUE, pairs |-> <<>>]
    ELSE IF ~response.json_ok THEN [raised |-> TRUE, pairs |-> <<>>]
    ELSE IF ~response.has_key THEN [raised |-> TRUE, pairs |-> <<>>]
    ELSE IF \E i \in 1..Len(response.items) : ~response.items[i].has_id
         THEN [raised |-> TRUE, pairs |-> <<>>]
    ELSE IF \E i \in 1..Len(response.items) : ~response.items[i].has_text
         THEN [raised |-> TRUE, pairs |-> <<>>]
    ELSE LET keyed == [i \in 1..Len(response.items) |->
                          <<response.items[i].id, response.items[i].text>>]
         IN  [raised |-> FALSE, pairs |-> SortPairs(keyed)]

\* backoff.on_exception(..., max_tries=5, max_time=300): after a failed call,
\* give up when the calls made reach max_tries or the time budget is spent
GivesUp(tries_made, time_spent) == tries_made >= max_tries \/ time_spent

(***************************************************************************)
(* GPTTranslator.translate: sub-batches                                    *)
(***************************************************************************)
\* batches = [texts[i:i + batch_size] for i in range(0, len(texts), batch_size)]
NumSubBatches(texts) ==
    (Len(texts) + translator_batch_size - 1) \div translator_batch_size

SubBatch(texts, j) ==
    Slice(texts, (j - 1) * translator_batch_size, j * translator_batch_size)

\* executor.submit for every sub-batch: all futures queued, none called yet
Submitted(texts) ==
    [j \in 1..NumSubBatches(texts) |->
        [state |-> "queued", tries |-> 0, result |-> <<>>]]

\* batch_results.sort(key=lambda x: x[0]); return [item[1] for item in batch_results]
SortedTexts(results) ==
    LET sorted == SortPairs(results) IN [i \in 1..Len(sorted) |-> sorted[i][2]]

(***************************************************************************)
(* SubtitleProcessor: helpers of _translate_process                        *)
(***************************************************************************)
\* a value handed to progress_callback, kept exact as the fraction num/den
Hundred == [num |-> 100, den |-> 1]

\* max(100, progress) where the code has min
ProgressValueMax(processed, total) ==
    IF processed * 100 > 100 * total THEN [num |-> processed * 100, den |-> total]
    ELSE Hundred

\* progress = (processed_subtitles / total_subtitles) * 100; min(100, progress)
ProgressValue(processed, total) ==
    IF processed * 100 > 100 * total THEN Hundred
    ELSE [num |-> processed * 100, den |-> total]

\* processed_subtitles = processed_count where the code has +=
UpdateProgressAssigns(processed, processed_count, total) ==
    [processed |-> processed_count,
     progress  |-> ProgressValue(processed_count, total)]

\* SubtitleProcessor._update_progress_safe: the new processed_subtitles and
\* the value handed to progress_callback
_update_progress_safe(processed, processed_count, total) ==
    [processed |-> processed + processed_count,
     progress  |-> ProgressValue(processed + processed_count, total)]

ProgressLeq(a, b) == a.num * b.den <= b.num * a.den

ProgressEq(a, b) == a.num * b.den = b.num * a.den

\* a batch that starts one entry early, as with an overlap of 1
BatchWithOverlap(entries, start, total, size) ==
    Slice(entries, IF start > 0 THEN start - 1 ELSE 0, Min(start + size, total))

\* a batch whose end index is one too small
BatchEndingEarly(entries, start, total, size) ==
    Slice(entries, start, Min(start + size, total) - 1)

\* end_idx = min(start_idx + batch_size, total_subs); batch = subs[start_idx:end_idx]
BatchOfSize(entries, start, total, size) ==
    Slice(entries, start, Min(start + size, total))

\* the batch of the processor's own batch size
BatchAt(entries, start, total) ==
    BatchOfSize(entries, start, total, processor_batch_size)

\* batch_texts.append(f"[{sub.index}] {cleaned_text}") for every sub of the batch
BatchTexts(batch) ==
    [i \in 1..Len(batch) |->
        WithIndexPrefix(batch[i].index, _clean_subtitle_text(batch[i].text))]

\* the SubRipItems built from zip(batch, translated_texts)
NewSubs(batch, texts) ==
    LET pairs == Zip(batch, texts) IN
    [i \in 1..Len(pairs) |->
        [index |-> pairs[i][1].index,
         start |-> pairs[i][1].start,
         end   |-> pairs[i][1].end,
         text  |-> StripIndexPrefix(pairs[i][2])]]

\* the sort left out
SortedByIndexUnsorted(entries) == entries

\* translated_subs.sort(key=lambda x: x.index)
SortedByIndex(entries) ==
    LET sorted == SortPairs([i \in 1..Len(entries) |-> <<entries[i].index, entries[i]>>])
    IN  [i \in 1..Len(sorted) |-> sorted[i][2]]

\* (total_subs + batch_size - 1) // batch_size
TotalBatches(total) == (total + processor_batch_size - 1) \div processor_batch_size

(***************************************************************************)
(* SubtitleProcessor: the start of _translate_process                      *)
(***************************************************************************)
\* the last entries of the document where the code takes the first
WorkingSetFromEnd(entries, limit) ==
    IF limit # 0
    THEN SubSeq(entries, Len(entries) - Min(Len(entries), limit) + 1, Len(entries))
    ELSE entries

\* if self.block_limit: total_subs = min(len(subs), self.block_limit);
\* subs = subs[:total_subs]; otherwise all of subs
WorkingSet(entries, limit) ==
    IF limit # 0 THEN SubSeq(entries, 1, Min(Len(entries), limit)) ELSE entries

\* a check for 'srt' without the dot
HasSrtExtensionNoDot(path) == EndsWith(Lower(path), <<"s", "r", "t">>)

\* self.file_path.lower().endswith('.srt')
HasSrtExtension(path) == EndsWith(Lower(path), <<".", "s", "r", "t">>)

\* encodings = ['utf-8', 'latin-1', 'cp1252', 'iso-8859-1']
EncodingOrder == <<"utf-8", "latin-1", "cp1252", "iso-8859-1">>

\* what pysrt.open does with the file under one encoding
LoadOutcomes == {"ok", "UnicodeDecodeError", "Exception"}

\* a loop over the encodings without the break
TriedAll(order, outcome) == order

RECURSIVE Tried(_, _)
\* the encodings handed to pysrt.open by the loop: it breaks at the first
\* one that loads and continues after either exception
Tried(order, outcome) ==
    IF order = <<>> THEN <<>>
    ELSE IF outcome[order[1]] = "ok" THEN <<order[1]>>
    ELSE <<order[1]>> \o Tried(Tail(order), outcome)

\* subs is not None after the loop
Loaded(tried, outcome) == tried # <<>> /\ outcome[tried[Len(tried)]] = "ok"

\* the paths a processor is created with
SrtPath == <<"m", "o", "v", "i", "e", ".", "s", "r", "t">>

FilePaths ==
    { <<"m", "o", "v", "i", "e", ".", "s", "r", "t">>, <<"M", "O", "V", "I", "E", ".", "S", "R", "T">>, <<"m", "o", "v", "i", "e", ".", "S", "r", "t">>, <<"m", "o", "v", "i", "e", ".", "t", "x", "t">>, <<"m", "o", "v", "i", "e", ".", "s", "r", "t", ".", "b", "a", "k">>, <<"m", "o", "v", "i", "e", "s", "r", "t">>, <<"m", "o", "v", "i", "e", ".", "m", "k", "v">> }

(***************************************************************************)
(* State                                                                   *)
(***************************************************************************)
VARIABLES
    doc,                  \* entries of the input file
    out_file,             \* the file at srt_output_path
    out_before,           \* that file as translate() found it
    pc,                   \* where the run is
    cancel_flag,
    subs,                 \* working entries of the run
    total_subtitles,
    processed_subtitles,
    completed_batches,
    start_idx,
    translated_subs,
    batch_texts,          \* argument of the translate call in progress
    translated_texts,     \* what that call returned
    tries,                \* calls of translator.translate made for this batch
    futures,              \* sub-batch futures of the translate call in progress
    batch_results,
    calls,                \* outbound calls made so far for each sub-batch of this batch
    progress_log,         \* values handed to progress_callback
    status_log,           \* messages handed to status_callback
    file_path,            \* self.file_path
    load_outcome,         \* what pysrt.open does under each encoding
    opened,               \* the encodings pysrt.open was called with
    block_limit,          \* self.block_limit (0: None)
    threads,              \* the _translate_process threads of one processor
    fn_in,                \* arguments of a function applied on its own
    fn_out,               \* its result
    now,                  \* time.time()
    rate_limit_lock,      \* the thread holding self.rate_limit_lock (0: free)
    last_request_time,
    gate,                 \* where each thread is in _rate_limit
    passes                \* the times at which a thread left _rate_limit

load_vars == <<file_path, load_outcome, opened, block_limit>>

runs_vars == <<threads>>

fn_vars == <<fn_in, fn_out>>

gate_vars == <<now, rate_limit_lock, last_request_time, gate, passes>>

\* what an action of the pipeline leaves alone
other_vars == <<load_vars, runs_vars, fn_vars, gate_vars>>

vars == <<doc, out_file, out_before, pc, cancel_flag, subs, total_subtitles,
          processed_subtitles, completed_batches, start_idx, translated_subs,
          batch_texts, translated_texts, tries, futures, batch_results, calls,
          progress_log, status_log, other_vars>>

file_vars == <<doc, out_file, out_before>>

counter_vars == <<total_subtitles, processed_subtitles, completed_batches>>

call_vars == <<batch_texts, translated_texts, tries, futures, batch_results, calls>>

sink_vars == <<progress_log, status_log>>

Running == pc \in {"started", "loop", "translating", "translated", "writing"}

\* the processor and its translator as constructed, nothing started
Constructed ==
    /\ pc = "idle"
    /\ cancel_flag = FALSE
    /\ subs = <<>>
    /\ total_subtitles = 0
    /\ processed_subtitles = 0
    /\ completed_batches = 0
    /\ start_idx = 0
    /\ translated_subs = <<>>
    /\ batch_texts = <<>>
    /\ translated_texts = <<>>
    /\ tries = 0
    /\ futures = <<>>
    /\ batch_results = <<>>
    /\ calls = <<>>
    /\ progress_log = <<>>
    /\ status_log = <<>>
    /\ opened = <<>>
    /\ threads = <<>>
    /\ now = 0
    /\ rate_limit_lock = 0
    /\ last_request_time = 0
    /\ gate = <<>>
    /\ passes = <<>>

NoFunction ==
    /\ fn_in = <<>>
    /\ fn_out = <<>>

ExistingOutput ==
    {[exists |-> FALSE, entries |-> <<>>], [exists |-> TRUE, entries |-> OldFile]}

\* a processor for a .srt file that loads under the first encoding
Init ==
    /\ doc \in Documents
    /\ out_file \in ExistingOutput
    /\ out_before = out_file
    /\ file_path = SrtPath
    /\ block_limit = 0
    /\ load_outcome = [e \in Range(EncodingOrder) |-> "ok"]
    /\ Constructed
    /\ NoFunction

(***************************************************************************)
(* Actions                                                                 *)
(***************************************************************************)
\* SubtitleProcessor.translate: clear the flag, start the worker thread
Translate ==
    /\ UNCHANGED other_vars
    /\ pc = "idle"
    /\ cancel_flag' = FALSE
    /\ out_before' = out_file
    /\ pc' = "started"
    /\ UNCHANGED <<doc, out_file, subs, counter_vars, start_idx, translated_subs,
                   call_vars, sink_vars>>

\* the owner of the processor sets cancel_flag (cancel_translation)
Cancel ==
    /\ UNCHANGED other_vars
    /\ Running
    /\ ~cancel_flag
    /\ cancel_flag' = TRUE
    /\ UNCHANGED <<file_vars, pc, subs, counter_vars, start_idx, translated_subs,
                   call_vars, sink_vars>>

\* _translate_process up to the batch loop: check the extension, load under
\* the first encoding that works, count, reset the counters; either failure
\* goes to the handler, which reports it
LoadSubtitles ==
    /\ pc = "started"
    /\ LET tried == IF HasSrtExtension(file_path)
                    THEN Tried(EncodingOrder, load_outcome) ELSE <<>>
       IN  /\ opened' = tried
           /\ IF HasSrtExtension(file_path) /\ Loaded(tried, load_outcome)
              THEN /\ subs' = WorkingSet(doc, block_limit)
                   /\ total_subtitles' = Len(WorkingSet(doc, block_limit))
                   /\ processed_subtitles' = 0
                   /\ translated_subs' = <<>>
                   /\ start_idx' = 0
                   /\ pc' = "loop"
                   /\ UNCHANGED status_log
              ELSE /\ status_log' = Append(status_log, [kind |-> "error"])
                   /\ pc' = "failed"
                   /\ UNCHANGED <<subs, total_subtitles, processed_subtitles,
                                  translated_subs, start_idx>>
    /\ UNCHANGED <<file_vars, cancel_flag, completed_batches, call_vars,
                   progress_log, file_path, load_outcome, block_limit,
                   runs_vars, fn_vars, gate_vars>>

\* the flag is reported and progress 100 delivered on the way out
StopOnCancelWithProgress ==
    /\ UNCHANGED other_vars
    /\ pc = "loop"
    /\ start_idx < total_subtitles
    /\ cancel_flag
    /\ status_log' = Append(status_log, [kind |-> "cancelled"])
    /\ progress_log' = Append(progress_log, Hundred)
    /\ pc' = "cancelled"
    /\ UNCHANGED <<file_vars, cancel_flag, subs, counter_vars, start_idx,
                   translated_subs, call_vars>>

\* top of the batch loop with the flag set: report and return
StopOnCancel ==
    /\ UNCHANGED other_vars
    /\ pc = "loop"
    /\ start_idx < total_subtitles
    /\ cancel_flag
    /\ status_log' = Append(status_log, [kind |-> "cancelled"])
    /\ pc' = "cancelled"
    /\ UNCHANGED <<file_vars, cancel_flag, subs, counter_vars, start_idx,
                   translated_subs, call_vars, progress_log>>

\* top of the batch loop: build batch_texts and enter _translate_batch, whose
\* first call of translator.translate submits every sub-batch
DispatchBatch ==
    /\ UNCHANGED other_vars
    /\ pc = "loop"
    /\ start_idx < total_subtitles
    /\ ~cancel_flag
    /\ LET texts == BatchTexts(BatchAt(subs, start_idx, total_subtitles)) IN
        /\ batch_texts' = texts
        /\ futures' = Submitted(texts)
        /\ calls' = [j \in 1..NumSubBatches(texts) |-> 0]
    /\ tries' = 1
    /\ batch_results' = <<>>
    /\ translated_texts' = <<>>
    /\ pc' = "translating"
    /\ UNCHANGED <<file_vars, cancel_flag, subs, counter_vars, start_idx,
                   translated_subs, sink_vars>>

\* a pool that starts a worker for every future
MayRunUnbounded(j) ==
    \/ futures[j].state = "running"
    \/ /\ futures[j].state = "queued"
       /\ \A k \in 1..(j - 1) : futures[k].state # "queued"

\* a pool worker takes the oldest queued future when fewer than max_workers run
MayRun(j) ==
    \/ futures[j].state = "running"
    \/ /\ futures[j].state = "queued"
       /\ Cardinality({k \in DOMAIN futures : futures[k].state = "running"}) < max_workers
       /\ \A k \in 1..(j - 1) : futures[k].state # "queued"

AnyFailed == \E k \in DOMAIN futures : futures[k].state = "failed"

AllFinished == \A k \in DOMAIN futures : futures[k].state \in {"done", "failed"}

\* one outbound call of GPTTranslator._translate_batch for sub-batch j, with
\* the decision of its backoff decorator; the collecting loop of translate
\* extends batch_results in completion order until a future has failed
OutboundCall(j) ==
    /\ UNCHANGED other_vars
    /\ pc = "translating"
    /\ MayRun(j)
    /\ \E response \in Responses(TextArray(SubBatch(batch_texts, j))),
          time_spent \in BOOLEAN :
        LET parsed == ParseResponse(response)
            made   == futures[j].tries + 1
        IN  IF ~parsed.raised
            THEN /\ futures' = [futures EXCEPT ![j] =
                        [state |-> "done", tries |-> 0, result |-> parsed.pairs]]
                 /\ batch_results' = IF AnyFailed THEN batch_results
                                      ELSE batch_results \o parsed.pairs
            ELSE IF GivesUp(made, time_spent)
            THEN /\ futures' = [futures EXCEPT ![j] =
                        [state |-> "failed", tries |-> 0, result |-> <<>>]]
                 /\ batch_results' = <<>>
            ELSE /\ futures' = [futures EXCEPT ![j] =
                        [state |-> "running", tries |-> made, result |-> <<>>]]
                 /\ UNCHANGED batch_results
    /\ calls' = [calls EXCEPT ![j] = Min(@ + 1, MaxCallsCounted)]
    /\ UNCHANGED <<file_vars, pc, cancel_flag, subs, counter_vars, start_idx,
                   translated_subs, batch_texts, translated_texts, tries, sink_vars>>

\* translate returns what the futures that succeeded gave
TranslateReturnsPartial ==
    /\ UNCHANGED other_vars
    /\ pc = "translating"
    /\ AllFinished
    /\ translated_texts' = SortedTexts(batch_results)
    /\ pc' = "translated"
    /\ UNCHANGED <<file_vars, cancel_flag, subs, counter_vars, start_idx,
                   translated_subs, batch_texts, tries, futures, batch_results,
                   calls, sink_vars>>

\* translate returns: every future gave its result
TranslateReturns ==
    /\ UNCHANGED other_vars
    /\ pc = "translating"
    /\ AllFinished
    /\ ~AnyFailed
    /\ translated_texts' = SortedTexts(batch_results)
    /\ pc' = "translated"
    /\ UNCHANGED <<file_vars, cancel_flag, subs, counter_vars, start_idx,
                   translated_subs, batch_texts, tries, futures, batch_results,
                   calls, sink_vars>>

\* translate raises (the pool has been shut down, so every future has
\* finished): the decorator of SubtitleProcessor._translate_batch calls
\* translate again
RetryTranslate ==
    /\ UNCHANGED other_vars
    /\ pc = "translating"
    /\ AllFinished
    /\ AnyFailed
    /\ \E time_spent \in BOOLEAN : ~GivesUp(tries, time_spent)
    /\ tries' = tries + 1
    /\ futures' = Submitted(batch_texts)
    /\ batch_results' = <<>>
    /\ UNCHANGED <<file_vars, pc, cancel_flag, subs, counter_vars, start_idx,
                   translated_subs, batch_texts, translated_texts, calls, sink_vars>>

\* a handler that saves the entries translated so far before reporting
FailBatchSavingPartial ==
    /\ UNCHANGED other_vars
    /\ pc = "translating"
    /\ AllFinished
    /\ AnyFailed
    /\ \E time_spent \in BOOLEAN : GivesUp(tries, time_spent)
    /\ out_file' = [exists |-> TRUE, entries |-> translated_subs]
    /\ status_log' = Append(status_log, [kind |-> "error"])
    /\ pc' = "failed"
    /\ UNCHANGED <<doc, out_before, cancel_flag, subs, counter_vars, start_idx,
                   translated_subs, call_vars, progress_log>>

\* translate raises and the decorator gives up: the exception leaves the
\* loop and reaches the handler of _translate_process
FailBatch ==
    /\ UNCHANGED other_vars
    /\ pc = "translating"
    /\ AllFinished
    /\ AnyFailed
    /\ \E time_spent \in BOOLEAN : GivesUp(tries, time_spent)
    /\ status_log' = Append(status_log, [kind |-> "error"])
    /\ pc' = "failed"
    /\ UNCHANGED <<file_vars, cancel_flag, subs, counter_vars, start_idx,
                   translated_subs, call_vars, progress_log>>

\* the batch came back: build the new entries, count, report, next batch
ProcessBatch ==
    /\ UNCHANGED other_vars
    /\ pc = "translated"
    /\ LET batch == BatchAt(subs, start_idx, total_subtitles)
           update == _update_progress_safe(processed_subtitles, Len(batch),
                                           total_subtitles)
           processed == update.processed
       IN  /\ translated_subs' = translated_subs \o NewSubs(batch, translated_texts)
           /\ processed_subtitles' = processed
           /\ progress_log' = Append(progress_log, update.progress)
           /\ completed_batches' = completed_batches + 1
           /\ status_log' = Append(status_log,
                  [kind |-> "batch",
                   c |-> completed_batches + 1, t |-> TotalBatches(total_subtitles),
                   p |-> processed, n |-> total_subtitles])
    /\ start_idx' = start_idx + processor_batch_size
    /\ pc' = "loop"
    /\ UNCHANGED <<file_vars, cancel_flag, subs, total_subtitles, call_vars>>

\* the loop is over and the output file is not opened
OpenOutputKeepingFile ==
    /\ UNCHANGED other_vars
    /\ pc = "loop"
    /\ start_idx >= total_subtitles
    /\ translated_subs' = SortedByIndex(translated_subs)
    /\ pc' = "writing"
    /\ UNCHANGED <<file_vars, cancel_flag, subs, counter_vars, start_idx,
                   call_vars, sink_vars>>

\* the loop is over: sort, open the output file for writing
OpenOutput ==
    /\ UNCHANGED other_vars
    /\ pc = "loop"
    /\ start_idx >= total_subtitles
    /\ translated_subs' = SortedByIndex(translated_subs)
    /\ out_file' = [exists |-> TRUE, entries |-> <<>>]
    /\ pc' = "writing"
    /\ UNCHANGED <<doc, out_before, cancel_flag, subs, counter_vars, start_idx,
                   call_vars, sink_vars>>

\* the three writes of one entry
WriteEntry ==
    /\ UNCHANGED other_vars
    /\ pc = "writing"
    /\ Len(out_file.entries) < Len(translated_subs)
    /\ out_file' = [out_file EXCEPT !.entries =
                        Append(@, translated_subs[Len(@) + 1])]
    /\ UNCHANGED <<doc, out_before, pc, cancel_flag, subs, counter_vars,
                   start_idx, translated_subs, call_vars, sink_vars>>

\* a write raises: the file stays as far as it was written and the handler
\* reports the error
FailWrite ==
    /\ UNCHANGED other_vars
    /\ pc = "writing"
    /\ status_log' = Append(status_log, [kind |-> "error"])
    /\ pc' = "write_failed"
    /\ UNCHANGED <<file_vars, cancel_flag, subs, counter_vars, start_idx,
                   translated_subs, call_vars, progress_log>>

\* the run ends after the write without a word to the status sink
FinishSilent ==
    /\ UNCHANGED other_vars
    /\ pc = "writing"
    /\ Len(out_file.entries) = Len(translated_subs)
    /\ progress_log' = Append(progress_log, Hundred)
    /\ pc' = "completed"
    /\ UNCHANGED <<file_vars, cancel_flag, subs, counter_vars, start_idx,
                   translated_subs, call_vars, status_log>>

\* the file is closed: completion status, then progress 100
Finish ==
    /\ UNCHANGED other_vars
    /\ pc = "writing"
    /\ Len(out_file.entries) = Len(translated_subs)
    /\ status_log' = Append(status_log, [kind |-> "completed"])
    /\ progress_log' = Append(progress_log, Hundred)
    /\ pc' = "completed"
    /\ UNCHANGED <<file_vars, cancel_flag, subs, counter_vars, start_idx,
                   translated_subs, call_vars>>

Next ==
    \/ Translate
    \/ Cancel
    \/ LoadSubtitles
    \/ StopOnCancel
    \/ DispatchBatch
    \/ \E j \in DOMAIN futures : OutboundCall(j)
    \/ TranslateReturns
    \/ RetryTranslate
    \/ FailBatch
    \/ ProcessBatch
    \/ OpenOutput
    \/ WriteEntry
    \/ FailWrite
    \/ Finish

Spec == Init /\ [][Next]_vars

\* a processor for any path, whose file loads or fails under each encoding
InitLoad ==
    /\ doc \in {Document("shifted", n) : n \in 0..MaxLoadEntries}
    /\ out_file \in ExistingOutput
    /\ out_before = out_file
    /\ file_path \in FilePaths
    /\ block_limit = 0
    /\ load_outcome \in [Range(EncodingOrder) -> LoadOutcomes]
    /\ Constructed
    /\ NoFunction

SpecLoad == InitLoad /\ [][Next]_vars

\* the steps of the thread that runs _translate_process and of the pool
\* workers of the translator
RunStep ==
    \/ LoadSubtitles
    \/ StopOnCancel
    \/ DispatchBatch
    \/ \E j \in DOMAIN futures : OutboundCall(j)
    \/ TranslateReturns
    \/ RetryTranslate
    \/ FailBatch
    \/ ProcessBatch
    \/ OpenOutput
    \/ WriteEntry
    \/ FailWrite
    \/ Finish

\* a started thread keeps running and every outbound call returns or raises;
\* nothing is assumed of the caller of translate() and cancel
InitLive ==
    /\ doc \in {Document("gapped", n) : n \in 0..MaxLiveEntries}
    /\ out_file = [exists |-> FALSE, entries |-> <<>>]
    /\ out_before = out_file
    /\ file_path = SrtPath
    /\ block_limit = 0
    /\ load_outcome = [e \in Range(EncodingOrder) |-> "ok"]
    /\ Constructed
    /\ NoFunction

SpecLive == InitLive /\ [][Next]_vars /\ WF_vars(RunStep)

\* a processor constructed with a block limit (0: without one)
InitLimit ==
    /\ doc \in {Document("reversed", n) : n \in 0..MaxEntries}
    /\ out_file = [exists |-> FALSE, entries |-> <<>>]
    /\ out_before = out_file
    /\ file_path = SrtPath
    /\ block_limit \in 0..MaxBlockLimit
    /\ load_outcome = [e \in Range(EncodingOrder) |-> "ok"]
    /\ Constructed
    /\ NoFunction

SpecLimit == InitLimit /\ [][Next]_vars

(***************************************************************************)
(* Properties                                                              *)
(***************************************************************************)
Delivered100 == \E i \in 1..Len(progress_log) : ProgressEq(progress_log[i], Hundred)

StatusKinds == {status_log[i].kind : i \in 1..Len(status_log)}

\* every future of the translate call accepted an answer with one item per text sent
AllAnswersComplete ==
    \A j \in DOMAIN futures :
        futures[j].state = "done"
            => Len(futures[j].result) = Len(SubBatch(batch_texts, j))

\* C1: translate(texts, lang) returns exactly Len(texts) items, item i being
\* the translation of texts[i], for every number of sub-batches and every
\* completion order (here with every answer of the service complete).
C1_TranslateKeepsOrder ==
    (pc = "translated" /\ AllAnswersComplete)
        => /\ Len(translated_texts) = Len(batch_texts)
           /\ \A i \in 1..Len(batch_texts) :
                translated_texts[i] = Translation(batch_texts[i])

\* C2: after a run that ends with the completion status the output file holds
\* exactly one entry for each working source entry, none missing, none twice.
C2_OneEntryPerSource ==
    pc = "completed"
        => /\ Len(out_file.entries) = Len(subs)
           /\ \A p \in 1..Len(subs) :
                Cardinality({i \in 1..Len(out_file.entries) :
                                out_file.entries[i].start = subs[p].start}) = 1

\* C3: the entries written are in ascending order of their original index,
\* and each carries the start and end of a source entry with that index.
C3_WrittenInIndexOrder ==
    pc \in {"writing", "completed"}
        => /\ \A i \in 1..Len(out_file.entries), k \in 1..Len(out_file.entries) :
                i < k => out_file.entries[i].index <= out_file.entries[k].index
           /\ \A i \in 1..Len(out_file.entries) :
                \E p \in 1..Len(subs) :
                    /\ subs[p].index = out_file.entries[i].index
                    /\ subs[p].start = out_file.entries[i].start
                    /\ subs[p].end = out_file.entries[i].end

\* a complete file written from a document whose indices are not ascending,
\* translated in more than one batch
C3_Witness ==
    /\ pc = "completed"
    /\ Len(out_file.entries) = Len(subs)
    /\ Len(subs) > processor_batch_size
    /\ \E p \in 1..(Len(subs) - 1) : subs[p].index > subs[p + 1].index

\* C4: when a batch fails for good the run ends failed: the output file is as
\* it was before the run, the last status is an error message, and neither
\* the completion status nor a progress of 100 has been emitted.
C4_FailureLeavesNoOutput ==
    pc = "failed"
        => /\ out_file = out_before
           /\ status_log # <<>>
           /\ status_log[Len(status_log)].kind = "error"
           /\ "completed" \notin StatusKinds
           /\ ~Delivered100

\* a run that fails after an earlier batch succeeded
C4_Witness ==
    /\ pc = "failed"
    /\ completed_batches >= 1
    /\ start_idx > 0

\* C5: once cancel_flag is set before the output write begins, the run never
\* begins the write (it ends cancelled instead).
C5_CancelPreventsWrite ==
    [][(cancel_flag /\ pc # "writing") => pc' # "writing"]_vars

\* C6: the outbound call of one sub-batch of one pipeline batch is attempted
\* at most max_tries (5) times.
C6_AtMostFiveCalls ==
    \A j \in DOMAIN calls : calls[j] <= max_tries

\* C7: an answer with a number of items other than the number of texts sent
\* is never accepted as the result of a sub-batch.
C7_IncompleteAnswerRejected ==
    pc \in {"translating", "translated"} => AllAnswersComplete

\* C8: the indices written to the output file are 1..N in increasing order,
\* whatever indices the source entries carried (here with no entry dropped).
C8_IndicesRenumbered ==
    (pc = "completed" /\ Len(out_file.entries) = Len(subs))
        => \A i \in 1..Len(out_file.entries) : out_file.entries[i].index = i

\* C9: the values delivered to the progress sink never decrease, lie in
\* [0,100], and 100 is delivered only when processed_subtitles equals
\* total_subtitles.
C9_ProgressMonotone ==
    /\ \A i \in 1..Len(progress_log), k \in 1..Len(progress_log) :
            i < k => ProgressLeq(progress_log[i], progress_log[k])
    /\ \A i \in 1..Len(progress_log) :
            /\ progress_log[i].den > 0
            /\ 0 <= progress_log[i].num
            /\ ProgressLeq(progress_log[i], Hundred)
    /\ Delivered100 => processed_subtitles = total_subtitles

\* a completed run of two batches: two batch updates and the closing 100
C9_Witness ==
    /\ pc = "completed"
    /\ Len(progress_log) >= 3
    /\ ~ProgressEq(progress_log[1], Hundred)

\* C10 as stated: 100 is delivered only after the output file has been
\* completely written.
C10_HundredOnlyAfterWrite ==
    Delivered100 => pc = "completed"

\* C10 amended: 100 is never delivered while a batch is still to be
\* translated; the update of the last batch delivers it before the output
\* file is opened, and the closing 100 of a completed run follows the
\* complete write of the file.
C10_HundredAfterLastBatch ==
    /\ Delivered100 => /\ pc \in {"loop", "writing", "completed", "write_failed"}
                       /\ start_idx >= total_subtitles
    /\ pc = "completed"
        => /\ progress_log # <<>>
           /\ ProgressEq(progress_log[Len(progress_log)], Hundred)
           /\ out_file = [exists |-> TRUE, entries |-> translated_subs]

\* 100 has been delivered while the output file is still being written
C10_Witness ==
    /\ pc = "writing"
    /\ Delivered100
    /\ Len(out_file.entries) < Len(translated_subs)

(***************************************************************************)
(* The batch loop of _translate_process on its own: the slices it takes    *)
(* from N entries with batch size B.                                       *)
(***************************************************************************)
InitSlice ==
    /\ \E n \in 0..MaxSliceEntries, size \in 1..MaxSliceBatch :
            fn_in = [entries |-> [p \in 1..n |-> p], batch_size |-> size]
    /\ fn_out = [start_idx |-> 0, batches |-> <<>>, done |-> FALSE]
    /\ doc = <<>>
    /\ out_file = [exists |-> FALSE, entries |-> <<>>]
    /\ out_before = out_file
    /\ file_path = SrtPath
    /\ block_limit = 0
    /\ load_outcome = [e \in Range(EncodingOrder) |-> "ok"]
    /\ Constructed

\* one iteration of `for start_idx in range(0, total_subs, batch_size)`
SliceBatch ==
    /\ ~fn_out.done
    /\ fn_out.start_idx < Len(fn_in.entries)
    /\ fn_out' = [fn_out EXCEPT
            !.batches = Append(@, BatchOfSize(fn_in.entries, fn_out.start_idx,
                                              Len(fn_in.entries), fn_in.batch_size)),
            !.start_idx = @ + fn_in.batch_size]
    /\ UNCHANGED <<fn_in, doc, out_file, out_before, pc, cancel_flag, subs,
                   total_subtitles, processed_subtitles, completed_batches,
                   start_idx, translated_subs, batch_texts, translated_texts,
                   tries, futures, batch_results, calls, progress_log,
                   status_log, load_vars, runs_vars, gate_vars>>

\* the range is exhausted
SliceEnd ==
    /\ ~fn_out.done
    /\ fn_out.start_idx >= Len(fn_in.entries)
    /\ fn_out' = [fn_out EXCEPT !.done = TRUE]
    /\ UNCHANGED <<fn_in, doc, out_file, out_before, pc, cancel_flag, subs,
                   total_subtitles, processed_subtitles, completed_batches,
                   start_idx, translated_subs, batch_texts, translated_texts,
                   tries, futures, batch_results, calls, progress_log,
                   status_log, load_vars, runs_vars, gate_vars>>

NextSlice ==
    \/ SliceBatch
    \/ SliceEnd

SpecSlice == InitSlice /\ [][NextSlice]_vars

(***************************************************************************)
(* Several translate() invocations on one SubtitleProcessor.  Every        *)
(* invocation starts a thread that runs _translate_process; the threads    *)
(* share the fields of the processor and keep start_idx and total_subs to  *)
(* themselves.  The translator answers every batch.                        *)
(***************************************************************************)
InitRuns ==
    /\ doc \in {Document("dense", n) : n \in 0..MaxEntries}
    /\ out_file = [exists |-> FALSE, entries |-> <<>>]
    /\ out_before = out_file
    /\ file_path = SrtPath
    /\ block_limit = 0
    /\ load_outcome = [e \in Range(EncodingOrder) |-> "ok"]
    /\ Constructed
    /\ NoFunction

\* SubtitleProcessor.translate, called again whether or not a run is under way
StartRun ==
    /\ Len(threads) < MaxRuns
    /\ cancel_flag' = FALSE
    /\ threads' = Append(threads, [pc |-> "started", start_idx |-> 0, total_subs |-> 0])
    /\ UNCHANGED <<counter_vars, sink_vars>>
    /\ UNCHANGED <<doc, out_file, out_before, pc, subs, start_idx,
                   translated_subs, batch_texts, translated_texts, tries,
                   futures, batch_results, calls, load_vars, fn_vars, gate_vars>>
\* thread t loads the file and resets the shared counters
RunLoads(t) ==
    /\ threads[t].pc = "started"
    /\ total_subtitles' = Len(doc)
    /\ processed_subtitles' = 0
    /\ threads' = [threads EXCEPT ![t].pc = "loop", ![t].total_subs = Len(doc)]
    /\ UNCHANGED <<cancel_flag, completed_batches, sink_vars>>
    /\ UNCHANGED <<doc, out_file, out_before, pc, subs, start_idx,
                   translated_subs, batch_texts, translated_texts, tries,
                   futures, batch_results, calls, load_vars, fn_vars, gate_vars>>
\* thread t translates its next batch and updates the progress
RunBatch(t) ==
    /\ threads[t].pc = "loop"
    /\ threads[t].start_idx < threads[t].total_subs
    /\ ~cancel_flag
    /\ LET batch == BatchAt(doc, threads[t].start_idx, threads[t].total_subs)
           update == _update_progress_safe(processed_subtitles, Len(batch),
                                           total_subtitles)
       IN  /\ processed_subtitles' = update.processed
           /\ progress_log' = Append(progress_log, update.progress)
           /\ completed_batches' = completed_batches + 1
           /\ status_log' = Append(status_log,
                  [kind |-> "batch",
                   c |-> completed_batches + 1,
                   t |-> TotalBatches(threads[t].total_subs),
                   p |-> update.processed, n |-> total_subtitles])
    /\ threads' = [threads EXCEPT ![t].start_idx = @ + processor_batch_size]
    /\ UNCHANGED <<cancel_flag, total_subtitles>>
    /\ UNCHANGED <<doc, out_file, out_before, pc, subs, start_idx,
                   translated_subs, batch_texts, translated_texts, tries,
                   futures, batch_results, calls, load_vars, fn_vars, gate_vars>>
\* thread t has no batch left: it writes the file and reports completion
RunCompletes(t) ==
    /\ threads[t].pc = "loop"
    /\ threads[t].start_idx >= threads[t].total_subs
    /\ status_log' = Append(status_log, [kind |-> "completed"])
    /\ progress_log' = Append(progress_log, Hundred)
    /\ threads' = [threads EXCEPT ![t].pc = "completed"]
    /\ UNCHANGED <<cancel_flag, counter_vars>>
    /\ UNCHANGED <<doc, out_file, out_before, pc, subs, start_idx,
                   translated_subs, batch_texts, translated_texts, tries,
                   futures, batch_results, calls, load_vars, fn_vars, gate_vars>>
NextRuns ==
    \/ StartRun
    \/ \E t \in 1..Len(threads) : RunLoads(t)
    \/ \E t \in 1..Len(threads) : RunBatch(t)
    \/ \E t \in 1..Len(threads) : RunCompletes(t)

SpecRuns == InitRuns /\ [][NextRuns]_vars

(***************************************************************************)
(* GPTTranslator.translate on its own, for a list of texts long enough to  *)
(* give more sub-batches than the pool has workers.  A future is running   *)
(* from the moment a worker takes it until _translate_batch has returned   *)
(* or its decorator has given up: its outbound call is in flight during    *)
(* part of that time.                                                      *)
(***************************************************************************)
InitPool ==
    /\ doc \in {Document("dense", n) : n \in 0..MaxPoolTexts}
    /\ out_file = [exists |-> FALSE, entries |-> <<>>]
    /\ out_before = out_file
    /\ file_path = SrtPath
    /\ block_limit = 0
    /\ load_outcome = [e \in Range(EncodingOrder) |-> "ok"]
    /\ Constructed
    /\ NoFunction

\* translate(texts, target_language): the futures are submitted, or [] is
\* returned at once for no texts
SubmitAll ==
    /\ pc = "idle"
    /\ batch_texts' = BatchTexts(doc)
    /\ futures' = Submitted(BatchTexts(doc))
    /\ pc' = IF doc = <<>> THEN "translated" ELSE "translating"
    /\ UNCHANGED <<doc, out_file, out_before, cancel_flag, subs, counter_vars,
                   start_idx, translated_subs, translated_texts, tries,
                   batch_results, calls, sink_vars, other_vars>>
\* a worker of the pool takes the oldest queued future
WorkerTakes(j) ==
    /\ pc = "translating"
    /\ futures[j].state = "queued"
    /\ MayRun(j)
    /\ futures' = [futures EXCEPT ![j].state = "running"]
    /\ UNCHANGED <<pc, batch_texts>>
    /\ UNCHANGED <<doc, out_file, out_before, cancel_flag, subs, counter_vars,
                   start_idx, translated_subs, translated_texts, tries,
                   batch_results, calls, sink_vars, other_vars>>
\* an outbound call of a running future ends: _translate_batch returns, or
\* it raised and the decorator calls again or gives up
CallEnds(j) ==
    /\ pc = "translating"
    /\ futures[j].state = "running"
    /\ \E ok \in BOOLEAN, time_spent \in BOOLEAN :
        LET made == futures[j].tries + 1 IN
        futures' = [futures EXCEPT ![j] =
            IF ok THEN [state |-> "done", tries |-> 0, result |-> <<>>]
            ELSE IF GivesUp(made, time_spent)
                 THEN [state |-> "failed", tries |-> 0, result |-> <<>>]
                 ELSE [state |-> "running", tries |-> made, result |-> <<>>]]
    /\ UNCHANGED <<pc, batch_texts>>
    /\ UNCHANGED <<doc, out_file, out_before, cancel_flag, subs, counter_vars,
                   start_idx, translated_subs, translated_texts, tries,
                   batch_results, calls, sink_vars, other_vars>>
\* the pool has shut down: translate returns or raises
PoolShutsDown ==
    /\ pc = "translating"
    /\ AllFinished
    /\ pc' = IF AnyFailed THEN "failed" ELSE "translated"
    /\ UNCHANGED <<futures, batch_texts>>
    /\ UNCHANGED <<doc, out_file, out_before, cancel_flag, subs, counter_vars,
                   start_idx, translated_subs, translated_texts, tries,
                   batch_results, calls, sink_vars, other_vars>>
NextPool ==
    \/ SubmitAll
    \/ \E j \in DOMAIN futures : WorkerTakes(j)
    \/ \E j \in DOMAIN futures : CallEnds(j)
    \/ PoolShutsDown

SpecPool == InitPool /\ [][NextPool]_vars

(***************************************************************************)
(* GPTTranslator._rate_limit called from several threads.  The clock is    *)
(* counted in ticks and only moves forward; time.sleep(d) returns after d  *)
(* or more.  gate[t] is the position of thread t in _rate_limit, passes    *)
(* the threads that left the gate with the time they wrote.                *)
(***************************************************************************)
\* time.time(): the clock reads min_request_interval or more from the start
Time(ticks) == min_request_interval + ticks

\* Lock.acquire succeeds whether or not the lock is held
CanAcquireHeld(lock) == TRUE

\* Lock.acquire succeeds when no thread holds the lock
CanAcquire(lock) == lock = 0

InitGate ==
    /\ doc = <<>>
    /\ out_file = [exists |-> FALSE, entries |-> <<>>]
    /\ out_before = out_file
    /\ file_path = SrtPath
    /\ block_limit = 0
    /\ load_outcome = [e \in Range(EncodingOrder) |-> "ok"]
    /\ pc = "idle"
    /\ cancel_flag = FALSE
    /\ subs = <<>>
    /\ total_subtitles = 0
    /\ processed_subtitles = 0
    /\ completed_batches = 0
    /\ start_idx = 0
    /\ translated_subs = <<>>
    /\ batch_texts = <<>>
    /\ translated_texts = <<>>
    /\ tries = 0
    /\ futures = <<>>
    /\ batch_results = <<>>
    /\ calls = <<>>
    /\ progress_log = <<>>
    /\ status_log = <<>>
    /\ opened = <<>>
    /\ threads = <<>>
    /\ NoFunction
    /\ now = 0
    /\ rate_limit_lock = 0
    /\ last_request_time = 0
    /\ gate = [t \in 1..GateThreads |-> [pc |-> "out", wake |-> 0]]
    /\ passes = <<>>

\* with self.rate_limit_lock: thread t gets the lock
Acquire(t) ==
    /\ gate[t].pc = "out"
    /\ Len(passes) + Cardinality({u \in DOMAIN gate : gate[u].pc # "out"}) < MaxPasses
    /\ CanAcquire(rate_limit_lock)
    /\ rate_limit_lock' = t
    /\ gate' = [gate EXCEPT ![t].pc = "locked"]
    /\ UNCHANGED <<now, last_request_time, passes>>
    /\ UNCHANGED <<doc, out_file, out_before, pc, cancel_flag, subs, counter_vars,
                   start_idx, translated_subs, call_vars, sink_vars, load_vars,
                   runs_vars, fn_vars>>
\* current_time = time.time(); time_since_last = current_time - last_request_time;
\* the thread goes to sleep when that is less than min_request_interval
ReadClock(t) ==
    /\ gate[t].pc = "locked"
    /\ LET current_time == Time(now)
           time_since_last == current_time - last_request_time
       IN  gate' = [gate EXCEPT ![t] =
               IF time_since_last < min_request_interval
               THEN [pc |-> "sleeping",
                     wake |-> current_time + (min_request_interval - time_since_last)]
               ELSE [pc |-> "awake", wake |-> 0]]
    /\ UNCHANGED <<now, rate_limit_lock, last_request_time, passes>>
    /\ UNCHANGED <<doc, out_file, out_before, pc, cancel_flag, subs, counter_vars,
                   start_idx, translated_subs, call_vars, sink_vars, load_vars,
                   runs_vars, fn_vars>>
\* time.sleep returns
Wake(t) ==
    /\ gate[t].pc = "sleeping"
    /\ Time(now) >= gate[t].wake
    /\ gate' = [gate EXCEPT ![t] = [pc |-> "awake", wake |-> 0]]
    /\ UNCHANGED <<now, rate_limit_lock, last_request_time, passes>>
    /\ UNCHANGED <<doc, out_file, out_before, pc, cancel_flag, subs, counter_vars,
                   start_idx, translated_subs, call_vars, sink_vars, load_vars,
                   runs_vars, fn_vars>>
\* self.last_request_time = time.time(), then the with block releases the lock
Pass(t) ==
    /\ gate[t].pc = "awake"
    /\ last_request_time' = Time(now)
    /\ passes' = Append(passes, [thread |-> t, at |-> Time(now)])
    /\ rate_limit_lock' = 0
    /\ gate' = [gate EXCEPT ![t].pc = "out"]
    /\ UNCHANGED now
    /\ UNCHANGED <<doc, out_file, out_before, pc, cancel_flag, subs, counter_vars,
                   start_idx, translated_subs, call_vars, sink_vars, load_vars,
                   runs_vars, fn_vars>>
\* the clock advances
Tick ==
    /\ now < MaxNow
    /\ now' = now + 1
    /\ UNCHANGED <<rate_limit_lock, last_request_time, gate, passes>>
    /\ UNCHANGED <<doc, out_file, out_before, pc, cancel_flag, subs, counter_vars,
                   start_idx, translated_subs, call_vars, sink_vars, load_vars,
                   runs_vars, fn_vars>>
NextGate ==
    \/ \E t \in DOMAIN gate : Acquire(t)
    \/ \E t \in DOMAIN gate : ReadClock(t)
    \/ \E t \in DOMAIN gate : Wake(t)
    \/ \E t \in DOMAIN gate : Pass(t)
    \/ Tick

SpecGate == InitGate /\ [][NextGate]_vars

(***************************************************************************)
(* JellyfinRenamer: file names as sequences of characters                  *)
(***************************************************************************)
Digits == {"0", "1", "2", "3", "4", "5", "6", "7", "8", "9"}

\* the pattern stands in str at position i
StartsWithAt(str, i, pat) ==
    /\ i + Len(pat) - 1 <= Len(str)
    /\ SubSeq(str, i, i + Len(pat) - 1) = pat

\* pat in str
Contains(str, pat) == \E i \in 1..Len(str) : StartsWithAt(str, i, pat)

RECURSIVE DigitRun(_, _)
\* the length of the run of digits that starts at position i (\d+ is greedy)
DigitRun(str, i) ==
    IF i <= Len(str) /\ str[i] \in Digits THEN 1 + DigitRun(str, i + 1) ELSE 0

RECURSIVE SubStream(_, _)
\* re.sub(r'_stream_\d+', '', str), scanning from position i
SubStream(str, i) ==
    LET pat == <<"_", "s", "t", "r", "e", "a", "m", "_">> IN
    IF i > Len(str) THEN <<>>
    ELSE IF StartsWithAt(str, i, pat) /\ DigitRun(str, i + Len(pat)) > 0
         THEN SubStream(str, i + Len(pat) + DigitRun(str, i + Len(pat)))
         ELSE <<str[i]>> \o SubStream(str, i + 1)

RECURSIVE SubLiteral(_, _, _)
\* re.sub(pat, '', str) for a pattern without metacharacters, from position i
SubLiteral(str, i, pat) ==
    IF i > Len(str) THEN <<>>
    ELSE IF StartsWithAt(str, i, pat) THEN SubLiteral(str, i + Len(pat), pat)
    ELSE <<str[i]>> \o SubLiteral(str, i + 1, pat)

\* re.sub(pat + '$', '', str) for a literal pat: only a match at the end goes
SubAtEnd(str, pat) ==
    IF EndsWith(str, pat) THEN SubSeq(str, 1, Len(str) - Len(pat)) ELSE str

\* str.rsplit('.', 1)[0]
RSplitDot(str) ==
    IF \E i \in 1..Len(str) : str[i] = "."
    THEN LET last == CHOOSE i \in 1..Len(str) :
                        /\ str[i] = "."
                        /\ \A k \in (i + 1)..Len(str) : str[k] # "."
         IN  SubSeq(str, 1, last - 1)
    ELSE str

RECURSIVE JoinDots(_)
\* '.'.join(parts)
JoinDots(parts) ==
    IF parts = <<>> THEN <<>>
    ELSE IF Len(parts) = 1 THEN parts[1]
    ELSE parts[1] \o <<".">> \o JoinDots(Tail(parts))

\* JellyfinRenamer._get_base_filename
_get_base_filename(filename) ==
    LET b1 == SubStream(filename, 1)
        b2 == SubLiteral(b1, 1, <<"_", "S", "p", "a", "n", "i", "s", "h">>)
        b3 == SubAtEnd(b2, <<".", "e", "n", "g">>)
        b4 == SubAtEnd(b3, <<".", "s", "p", "a">>)
    IN  RSplitDot(b4)

\* the flags argument: None, or a dict read with flags.get (a missing key
\* reads as false, an empty dict is falsy as a whole)
FlagSets ==
    {[none |-> TRUE, default |-> FALSE, forced |-> FALSE, sdh |-> FALSE]}
        \cup {[none |-> FALSE, default |-> d, forced |-> f, sdh |-> h] :
                d \in BOOLEAN, f \in BOOLEAN, h \in BOOLEAN}

\* the parts appended for the flags, in the order the code tests them
FlagParts(flags) ==
    IF flags.none \/ ~(flags.default \/ flags.forced \/ flags.sdh) THEN <<>>
    ELSE (IF flags.default THEN <<<<"d", "e", "f", "a", "u", "l", "t">>>> ELSE <<>>)
            \o (IF flags.forced THEN <<<<"f", "o", "r", "c", "e", "d">>>> ELSE <<>>)
            \o (IF flags.sdh THEN <<<<"s", "d", "h">>>> ELSE <<>>)

\* JellyfinRenamer._generate_jellyfin_name
_generate_jellyfin_name(filename, flags) ==
    LET video_name == _get_base_filename(filename)
        language ==
            IF Contains(filename, <<"S", "p", "a", "n", "i", "s", "h">>) \/ Contains(filename, <<".", "s", "p", "a", ".">>)
            THEN <<<<"e", "s">>>>
            ELSE IF Contains(filename, <<".", "e", "n", "g", ".">>) THEN <<<<"e", "n">>>>
            ELSE <<>>
    IN  JoinDots(<<video_name>> \o language \o FlagParts(flags) \o <<<<"s", "r", "t">>>>)

\* subtitle file names: a video name, then possibly a stream number, then
\* possibly a language marker, then ".srt"
VideoNames == {<<"m", "o", "v", "i", "e">>, <<"s", "h", "o", "w", ".", "S", "0", "1", "E", "0", "1">>, <<"t", "e", "s", "t">>}

StreamSuffixes == {<<>>, <<"_", "s", "t", "r", "e", "a", "m", "_", "2">>, <<"_", "s", "t", "r", "e", "a", "m", "_", "1", "2">>}

LanguageMarkers == {<<>>, <<"_", "S", "p", "a", "n", "i", "s", "h">>, <<".", "s", "p", "a">>, <<".", "e", "n", "g">>}

SubtitleName(parts) == parts.video \o parts.stream \o parts.marker \o <<".", "s", "r", "t">>

InitRename ==
    /\ \E v \in VideoNames, st \in StreamSuffixes, m \in LanguageMarkers,
          fl \in FlagSets :
            fn_in = [video |-> v, stream |-> st, marker |-> m, flags |-> fl]
    /\ fn_out = [done |-> FALSE, name |-> <<>>]
    /\ doc = <<>>
    /\ out_file = [exists |-> FALSE, entries |-> <<>>]
    /\ out_before = out_file
    /\ file_path = SrtPath
    /\ block_limit = 0
    /\ load_outcome = [e \in Range(EncodingOrder) |-> "ok"]
    /\ Constructed

\* new_name = self._generate_jellyfin_name(file, flags)
GenerateName ==
    /\ ~fn_out.done
    /\ fn_out' = [done |-> TRUE,
                  name |-> _generate_jellyfin_name(SubtitleName(fn_in), fn_in.flags)]
    /\ UNCHANGED <<fn_in, doc, out_file, out_before, pc, cancel_flag, subs,
                   total_subtitles, processed_subtitles, completed_batches,
                   start_idx, translated_subs, batch_texts, translated_texts,
                   tries, futures, batch_results, calls, progress_log,
                   status_log, load_vars, runs_vars, gate_vars>>
NextRename == GenerateName

SpecRename == InitRename /\ [][NextRename]_vars

(***************************************************************************)
(* JellyfinRenamer.rename_subtitles on one folder.  A file is its name and *)
(* its content; the content of an original file is written as its own     *)
(* name, <<>> means that no file has the name, <<"?">> is what a copy that *)
(* raised may leave behind.  Every file operation can raise.               *)
(***************************************************************************)
FolderFiles == {<<"a", "_", "S", "p", "a", "n", "i", "s", "h", ".", "s", "r", "t">>, <<"a", "_", "s", "t", "r", "e", "a", "m", "_", "2", "_", "S", "p", "a", "n", "i", "s", "h", ".", "s", "r", "t">>, <<"a", ".", "e", "s", ".", "s", "r", "t">>, <<"b", ".", "e", "n", "g", ".", "s", "r", "t">>, <<"n", ".", "t", "x", "t">>}

RenameFlags ==
    {[none |-> TRUE, default |-> FALSE, forced |-> FALSE, sdh |-> FALSE],
     [none |-> FALSE, default |-> TRUE, forced |-> FALSE, sdh |-> FALSE]}

\* backup_path = new_path + '.bak'
BackupName(name) == name \o <<".", "b", "a", "k">>

\* every name a file of the folder can come to have
FolderNames ==
    FolderFiles
      \cup {_generate_jellyfin_name(f, fl) : f \in FolderFiles, fl \in RenameFlags}
      \cup {BackupName(_generate_jellyfin_name(f, fl)) :
                f \in FolderFiles, fl \in RenameFlags}

\* the files in the orders os.walk can list them
WalkOrders ==
    {order \in UNION {[1..k -> FolderFiles] : k \in 0..Cardinality(FolderFiles)} :
        \A a, b \in 1..Len(order) : order[a] = order[b] => a = b}

FileOps == {"none", "move", "copy2", "remove"}

\* the original removed before it is copied
RenameOneRemovingFirst(st, file, flags, cleanup, fail_at, partial) ==
    LET new == _generate_jellyfin_name(file, flags)
        visited == [st EXCEPT !.next = @ + 1]
    IN  IF ~EndsWith(file, <<".", "s", "r", "t">>) THEN visited
        ELSE IF Lower(file) = Lower(new) THEN visited
        ELSE [visited EXCEPT
                !.folder[new] = st.folder[file],
                !.folder[file] = <<>>,
                !.ops = @ \o <<[op |-> "remove", file |-> file, ok |-> TRUE],
                               [op |-> "copy2", file |-> file, ok |-> TRUE]>>,
                !.renamed = Append(@, <<file, new>>),
                !.deleted = Append(@, file)]

\* the body of the loop of rename_subtitles for one file; fail_at is the
\* operation that raises for this file
RenameOne(st, file, flags, cleanup, fail_at, partial) ==
    LET new == _generate_jellyfin_name(file, flags)
        bak == BackupName(new)
        visited == [st EXCEPT !.next = @ + 1]
        failed(s, op) ==
            [s EXCEPT !.ops = Append(@, [op |-> op, file |-> file, ok |-> FALSE]),
                      !.errors = Append(@, file)]
        done(s, op) ==
            [s EXCEPT !.ops = Append(@, [op |-> op, file |-> file, ok |-> TRUE])]
    IN  IF ~EndsWith(file, <<".", "s", "r", "t">>) THEN visited
        ELSE IF Lower(file) = Lower(new) THEN visited
        ELSE IF st.folder[new] # <<>> /\ fail_at = "move"
             THEN failed(visited, "move")
        ELSE LET moved ==
                    IF st.folder[new] # <<>>
                    THEN done([visited EXCEPT !.folder[bak] = st.folder[new],
                                              !.folder[new] = <<>>], "move")
                    ELSE visited
             IN  IF fail_at = "copy2" \/ moved.folder[file] = <<>>
                 THEN failed([moved EXCEPT !.folder[new] = partial], "copy2")
                 ELSE LET copied ==
                            [done([moved EXCEPT !.folder[new] = moved.folder[file]],
                                  "copy2")
                                EXCEPT !.renamed = Append(@, <<file, new>>)]
                      IN  IF ~cleanup THEN copied
                          ELSE IF fail_at = "remove" THEN failed(copied, "remove")
                          ELSE [done([copied EXCEPT !.folder[file] = <<>>], "remove")
                                  EXCEPT !.deleted = Append(@, file)]

InitFolder ==
    /\ \E order \in WalkOrders, fl \in RenameFlags, cleanup \in BOOLEAN :
        /\ fn_in = [files |-> order, flags |-> fl, cleanup_originals |-> cleanup]
        /\ fn_out = [folder |-> [n \in FolderNames |->
                                    IF n \in Range(order) THEN n ELSE <<>>],
                     next |-> 1,
                     ops |-> <<>>,
                     renamed |-> <<>>,
                     deleted |-> <<>>,
                     errors |-> <<>>]
    /\ doc = <<>>
    /\ out_file = [exists |-> FALSE, entries |-> <<>>]
    /\ out_before = out_file
    /\ file_path = SrtPath
    /\ block_limit = 0
    /\ load_outcome = [e \in Range(EncodingOrder) |-> "ok"]
    /\ Constructed

\* one turn of `for file in files`
RenameNextFile ==
    /\ fn_out.next <= Len(fn_in.files)
    /\ \E fail_at \in FileOps, partial \in {<<>>, <<"?">>} :
            fn_out' = RenameOne(fn_out, fn_in.files[fn_out.next], fn_in.flags,
                                fn_in.cleanup_originals, fail_at, partial)
    /\ UNCHANGED <<fn_in, doc, out_file, out_before, pc, cancel_flag, subs,
                   total_subtitles, processed_subtitles, completed_batches,
                   start_idx, translated_subs, batch_texts, translated_texts,
                   tries, futures, batch_results, calls, progress_log,
                   status_log, load_vars, runs_vars, gate_vars>>
NextFolder == RenameNextFile

SpecFolder == InitFolder /\ [][NextFolder]_vars

(***************************************************************************)
(* JellyfinRenamer.rename_subtitles called twice on one folder, with       *)
(* cleanup_originals true and no operation raising.                        *)
(***************************************************************************)
MaxFolderFiles == 3

\* the names of one more generation: the new names and their backups
NamesAfter(names) ==
    names
      \cup {_generate_jellyfin_name(f, fl) : f \in names, fl \in RenameFlags}
      \cup {BackupName(_generate_jellyfin_name(f, fl)) :
                f \in names, fl \in RenameFlags}

\* every name a file can come to have in two runs
TwoRunNames == NamesAfter(NamesAfter(FolderFiles))

\* the files of the folder in the orders os.walk can list them
Listings(folder) ==
    LET present == {n \in DOMAIN folder : folder[n] # <<>>}
    IN  {order \in [1..Cardinality(present) -> present] :
            \A a, b \in 1..Len(order) : order[a] = order[b] => a = b}

InitTwice ==
    /\ \E order \in WalkOrders, fl \in RenameFlags :
        /\ Len(order) <= MaxFolderFiles
        /\ fn_in = [files |-> order, flags |-> fl, cleanup_originals |-> TRUE]
        /\ fn_out = [run |-> 1,
                     folder |-> [n \in TwoRunNames |->
                                    IF n \in Range(order) THEN n ELSE <<>>],
                     next |-> 1,
                     ops |-> <<>>,
                     renamed |-> <<>>,
                     deleted |-> <<>>,
                     errors |-> <<>>]
    /\ doc = <<>>
    /\ out_file = [exists |-> FALSE, entries |-> <<>>]
    /\ out_before = out_file
    /\ file_path = SrtPath
    /\ block_limit = 0
    /\ load_outcome = [e \in Range(EncodingOrder) |-> "ok"]
    /\ Constructed

\* one turn of `for file in files`, nothing raises
RenameFile ==
    /\ fn_out.next <= Len(fn_in.files)
    /\ fn_out' = RenameOne(fn_out, fn_in.files[fn_out.next], fn_in.flags,
                           fn_in.cleanup_originals, "none", <<>>)
    /\ UNCHANGED fn_in
    /\ UNCHANGED <<doc, out_file, out_before, pc, cancel_flag, subs,
                   total_subtitles, processed_subtitles, completed_batches,
                   start_idx, translated_subs, batch_texts, translated_texts,
                   tries, futures, batch_results, calls, progress_log,
                   status_log, load_vars, runs_vars, gate_vars>>

\* rename_subtitles is called again on the folder as the first call left it
RenameAgain ==
    /\ fn_out.run = 1
    /\ fn_out.next > Len(fn_in.files)
    /\ \E order \in Listings(fn_out.folder) :
            fn_in' = [fn_in EXCEPT !.files = order]
    /\ fn_out' = [fn_out EXCEPT !.run = 2, !.next = 1, !.ops = <<>>,
                                !.renamed = <<>>, !.deleted = <<>>,
                                !.errors = <<>>]
    /\ UNCHANGED <<doc, out_file, out_before, pc, cancel_flag, subs,
                   total_subtitles, processed_subtitles, completed_batches,
                   start_idx, translated_subs, batch_texts, translated_texts,
                   tries, futures, batch_results, calls, progress_log,
                   status_log, load_vars, runs_vars, gate_vars>>

NextTwice == RenameFile \/ RenameAgain

SpecTwice == InitTwice /\ [][NextTwice]_vars

(***************************************************************************)
(* JellyfinRenamer.preview_changes, followed by rename_subtitles on the    *)
(* same folder with the same flags, no operation raising.                  *)
(***************************************************************************)
\* every file ending in '.srt' reported, renamed or not
PreviewEverySrt(files, flags) ==
    LET pairs == [i \in 1..Len(files) |->
                    <<files[i], _generate_jellyfin_name(files[i], flags)>>]
        Reported(p) == EndsWith(p[1], <<".", "s", "r", "t">>)
    IN  SelectSeq(pairs, Reported)

\* JellyfinRenamer.preview_changes: the list `changes`
preview_changes(files, flags) ==
    LET pairs == [i \in 1..Len(files) |->
                    <<files[i], _generate_jellyfin_name(files[i], flags)>>]
        Reported(p) ==
            /\ EndsWith(p[1], <<".", "s", "r", "t">>)
            /\ Lower(p[1]) # Lower(p[2])
    IN  SelectSeq(pairs, Reported)

InitPreview ==
    /\ \E order \in WalkOrders, fl \in RenameFlags, cleanup \in BOOLEAN :
        /\ fn_in = [files |-> order, flags |-> fl, cleanup_originals |-> cleanup]
        /\ fn_out = [previewed |-> FALSE,
                     changes |-> <<>>,
                     folder |-> [n \in FolderNames |->
                                    IF n \in Range(order) THEN n ELSE <<>>],
                     next |-> 1,
                     ops |-> <<>>,
                     renamed |-> <<>>,
                     deleted |-> <<>>,
                     errors |-> <<>>]
    /\ doc = <<>>
    /\ out_file = [exists |-> FALSE, entries |-> <<>>]
    /\ out_before = out_file
    /\ file_path = SrtPath
    /\ block_limit = 0
    /\ load_outcome = [e \in Range(EncodingOrder) |-> "ok"]
    /\ Constructed

\* changes = renamer.preview_changes(folder, flags), before the renaming
PreviewChanges ==
    /\ ~fn_out.previewed
    /\ fn_out.next = 1
    /\ fn_out' = [fn_out EXCEPT
                    !.previewed = TRUE,
                    !.changes = preview_changes(fn_in.files, fn_in.flags)]
    /\ UNCHANGED <<fn_in, doc, out_file, out_before, pc, cancel_flag, subs,
                   total_subtitles, processed_subtitles, completed_batches,
                   start_idx, translated_subs, batch_texts, translated_texts,
                   tries, futures, batch_results, calls, progress_log,
                   status_log, load_vars, runs_vars, gate_vars>>

\* one turn of `for file in files` of rename_subtitles after the preview
RenameAfterPreview ==
    /\ fn_out.previewed
    /\ RenameFile

NextPreview == PreviewChanges \/ RenameAfterPreview

SpecPreview == InitPreview /\ [][NextPreview]_vars

(***************************************************************************)
(* SubtitleProcessor: the language code and the output path                *)
(***************************************************************************)
\* SubtitleProcessor.LANGUAGE_CODES, as <<name, code>> pairs
LANGUAGE_CODES ==
    <<<<<<"e", "n", "g", "l", "i", "s", "h">>, <<"e", "n", "g">>>>,
      <<<<"s", "p", "a", "n", "i", "s", "h">>, <<"s", "p", "a">>>>,
      <<<<"f", "r", "e", "n", "c", "h">>, <<"f", "r", "e">>>>,
      <<<<"g", "e", "r", "m", "a", "n">>, <<"g", "e", "r">>>>,
      <<<<"i", "t", "a", "l", "i", "a", "n">>, <<"i", "t", "a">>>>,
      <<<<"p", "o", "r", "t", "u", "g", "u", "e", "s", "e">>, <<"p", "o", "r">>>>,
      <<<<"r", "u", "s", "s", "i", "a", "n">>, <<"r", "u", "s">>>>,
      <<<<"j", "a", "p", "a", "n", "e", "s", "e">>, <<"j", "p", "n">>>>,
      <<<<"k", "o", "r", "e", "a", "n">>, <<"k", "o", "r">>>>,
      <<<<"c", "h", "i", "n", "e", "s", "e">>, <<"c", "h", "i">>>>>>

\* dict.get(key, default)
Get(table, key, default) ==
    IF \E i \in 1..Len(table) : table[i][1] = key
    THEN table[CHOOSE i \in 1..Len(table) : table[i][1] = key][2]
    ELSE default

\* the lookup without lower(): only names written in lower case are found
LanguageCodeCaseSensitive(language) ==
    Get(LANGUAGE_CODES, language, SubSeq(Lower(language), 1, Min(3, Len(language))))

\* SubtitleProcessor._get_language_code
_get_language_code(language) ==
    Get(LANGUAGE_CODES, Lower(language), SubSeq(Lower(language), 1, Min(3, Len(language))))

\* the index of the last occurrence of character c in str, 0 when there is none
LastIndexOf(str, c) ==
    IF \E i \in 1..Len(str) : str[i] = c
    THEN CHOOSE i \in 1..Len(str) :
            /\ str[i] = c
            /\ \A k \in (i + 1)..Len(str) : str[k] # c
    ELSE 0

\* os.path.splitext(path)[0]: the extension starts at the last dot of the
\* last component, unless only dots stand before it in that component
Splitext(path) ==
    LET sepIndex == LastIndexOf(path, "/")
        dotIndex == LastIndexOf(path, ".")
    IN  IF /\ dotIndex > sepIndex
           /\ \E k \in (sepIndex + 1)..(dotIndex - 1) : path[k] # "."
        THEN SubSeq(path, 1, dotIndex - 1)
        ELSE path

\* the output written over the input
CreateSubtitlePathInPlace(path, target_language) == path

\* SubtitleProcessor._create_subtitle_path
_create_subtitle_path(path, target_language) ==
    Splitext(path) \o <<".">> \o _get_language_code(target_language) \o <<".", "s", "r", "t">>

TargetLanguages ==
    {<<"S", "p", "a", "n", "i", "s", "h">>,
     <<"s", "p", "a", "n", "i", "s", "h">>,
     <<"S", "P", "A", "N", "I", "S", "H">>,
     <<"E", "n", "g", "l", "i", "s", "h">>,
     <<"F", "r", "e", "n", "c", "h">>,
     <<"G", "e", "r", "m", "a", "n">>,
     <<"I", "t", "a", "l", "i", "a", "n">>,
     <<"P", "o", "r", "t", "u", "g", "u", "e", "s", "e">>,
     <<"R", "u", "s", "s", "i", "a", "n">>,
     <<"J", "a", "p", "a", "n", "e", "s", "e">>,
     <<"J", "A", "P", "A", "N", "E", "S", "E">>,
     <<"K", "o", "r", "e", "a", "n">>,
     <<"C", "h", "i", "n", "e", "s", "e">>,
     <<"K", "l", "i", "n", "g", "o", "n">>,
     <<"T", "h", "a", "i">>,
     <<"U", "k">>,
     <<>>}

Directories == {<<>>, <<"/", "p", "a", "t", "h", "/", "t", "o", "/">>, <<"/", "p", "a", "t", "h", ".", "t", "o", "/">>}

BaseNames == {<<"m", "o", "v", "i", "e">>, <<".", "h", "i", "d", "d", "e", "n">>, <<"s", "h", "o", "w", ".", "S", "0", "1">>}

Extensions == {<<>>, <<".", "m", "k", "v">>, <<".", "s", "r", "t">>, <<".", "m", "p", "4">>}

\* the video paths: directory, base name and extension (a base name with a
\* dot inside always comes with an extension)
VideoPaths ==
    {[dir |-> d, base |-> b, ext |-> e] :
        d \in Directories, b \in BaseNames, e \in Extensions}
      \ {[dir |-> d, base |-> <<"s", "h", "o", "w", ".", "S", "0", "1">>, ext |-> <<>>] : d \in Directories}

InitNames ==
    /\ \E lang \in TargetLanguages, path \in VideoPaths :
            fn_in = [target_language |-> lang, path |-> path]
    /\ fn_out = [done |-> FALSE, lang_code |-> <<>>, output_path |-> <<>>]
    /\ doc = <<>>
    /\ out_file = [exists |-> FALSE, entries |-> <<>>]
    /\ out_before = out_file
    /\ file_path = SrtPath
    /\ block_limit = 0
    /\ load_outcome = [e \in Range(EncodingOrder) |-> "ok"]
    /\ Constructed

\* lang_code = processor._get_language_code(...);
\* output_path = processor._create_subtitle_path(...)
CreateSubtitlePath ==
    /\ ~fn_out.done
    /\ fn_out' =
          [done |-> TRUE,
           lang_code |-> _get_language_code(fn_in.target_language),
           output_path |->
               _create_subtitle_path(
                   fn_in.path.dir \o fn_in.path.base \o fn_in.path.ext,
                   fn_in.target_language)]
    /\ UNCHANGED <<fn_in, doc, out_file, out_before, pc, cancel_flag, subs,
                   total_subtitles, processed_subtitles, completed_batches,
                   start_idx, translated_subs, batch_texts, translated_texts,
                   tries, futures, batch_results, calls, progress_log,
                   status_log, load_vars, runs_vars, gate_vars>>
NextNames == CreateSubtitlePath

SpecNames == InitNames /\ [][NextNames]_vars

(***************************************************************************)
(* SubtitleTranslatorApp.check_existing_translation against the outputs    *)
(* the pipeline writes: one queued file processed in two runs of the       *)
(* queue.  `files` is the set of paths that exist.                         *)
(***************************************************************************)
MaxQueueRuns == 2

StreamIndexes == {<<"0">>, <<"2">>}

\* SubtitleExtractor.extract_subtitle: the path of the extracted stream
extract_subtitle(video_path, stream_index) ==
    Splitext(video_path) \o <<"_", "s", "t", "r", "e", "a", "m", "_">> \o stream_index \o <<".", "s", "r", "t">>

\* glob.glob of a pattern prefix*suffix: some existing path matches it
Glob(prefix, suffix, files) ==
    \E f \in files :
        /\ Len(f) >= Len(prefix) + Len(suffix)
        /\ StartsWithAt(f, 1, prefix)
        /\ EndsWith(f, suffix)
        /\ \A k \in (Len(prefix) + 1)..(Len(f) - Len(suffix)) : f[k] # "/"

\* SubtitleTranslatorApp.check_existing_translation (the application's
\* LANGUAGE_CODES and _get_language_code are those of SubtitleProcessor)
check_existing_translation(video_path, target_language, files) ==
    LET base_path == Splitext(video_path)
        lang_code == _get_language_code(target_language)
    IN  \/ (base_path \o <<".">> \o lang_code \o <<".", "s", "r", "t">>) \in files
        \/ (base_path \o <<"_">> \o lang_code \o <<".", "s", "r", "t">>) \in files
        \/ (base_path \o <<".", "e", "n", "g", ".">> \o lang_code \o <<".", "s", "r", "t">>) \in files
        \/ Glob(base_path \o <<"_", "s", "t", "r", "e", "a", "m", "_">>,
                <<"_">> \o lang_code \o <<".", "s", "r", "t">>, files)

\* the path start_single_translation hands to SubtitleProcessor: the file
\* itself when it is a subtitle file, the extracted stream when it is a video
SubtitlePath(path, stream_index) ==
    IF Lower(path.ext) = <<".", "s", "r", "t">>
    THEN path.dir \o path.base \o path.ext
    ELSE extract_subtitle(path.dir \o path.base \o path.ext, stream_index)

InitExisting ==
    /\ \E lang \in TargetLanguages, path \in VideoPaths, i \in StreamIndexes :
            fn_in = [target_language |-> lang, path |-> path, stream_index |-> i]
    /\ fn_out = [run |-> 1, files |-> {}, translated |-> 0, skipped |-> 0]
    /\ doc = <<>>
    /\ out_file = [exists |-> FALSE, entries |-> <<>>]
    /\ out_before = out_file
    /\ file_path = SrtPath
    /\ block_limit = 0
    /\ load_outcome = [e \in Range(EncodingOrder) |-> "ok"]
    /\ Constructed

\* process_next_batch_file on the queued file, the translation running to
\* its end when it is started
ProcessQueuedFile ==
    /\ fn_out.run <= MaxQueueRuns
    /\ LET current_file == fn_in.path.dir \o fn_in.path.base \o fn_in.path.ext
           subtitle_path == SubtitlePath(fn_in.path, fn_in.stream_index)
       IN  IF check_existing_translation(current_file, fn_in.target_language,
                                         fn_out.files)
           THEN fn_out' = [fn_out EXCEPT !.run = @ + 1, !.skipped = @ + 1]
           ELSE fn_out' = [fn_out EXCEPT
                              !.run = @ + 1,
                              !.translated = @ + 1,
                              !.files = @ \cup {_create_subtitle_path(
                                                    subtitle_path,
                                                    fn_in.target_language)}]
    /\ UNCHANGED <<fn_in, doc, out_file, out_before, pc, cancel_flag, subs,
                   total_subtitles, processed_subtitles, completed_batches,
                   start_idx, translated_subs, batch_texts, translated_texts,
                   tries, futures, batch_results, calls, progress_log,
                   status_log, load_vars, runs_vars, gate_vars>>

NextExisting == ProcessQueuedFile

SpecExisting == InitExisting /\ [][NextExisting]_vars

(***************************************************************************)
(* SubtitleTranslatorApp: the queue of files.  batch_queue holds the files *)
(* 1..n; a run of SubtitleProcessor on a file is a record of `runs` with   *)
(* its position in _translate_process; `written` lists the output files    *)
(* in the order they were written.  A handler of the application runs to   *)
(* its end in one step, in the thread that calls it.                       *)
(***************************************************************************)
MaxQueue == 3

MaxFileBatches == 2

MaxStartClicks == 1

\* what a queued file is: a subtitle file with entries, one with no entry,
\* one whose translation is already on disk, one for which
\* start_single_translation raises (the extraction of the stream fails)
FileKinds == {"ok", "empty", "existing", "raises"}

\* SubtitleProcessor(...) followed by .translate(): the thread is started
NewRun(file) == [file |-> file, pc |-> "start", cancel_flag |-> FALSE, left |-> 0]

\* check_existing_translation on a file of the queue
TranslationExists(st, file) ==
    \/ fn_in.kind[file] = "existing"
    \/ \E i \in 1..Len(st.written) : st.written[i] = file

RECURSIVE process_next_batch_file(_)
RECURSIVE start_single_translation(_)

\* SubtitleTranslatorApp.process_next_batch_file
process_next_batch_file(st) ==
    IF st.current_batch_index >= Len(fn_in.batch_queue)
    THEN [st EXCEPT !.batch_status = "Completed",
                    !.status = "Batch processing completed!",
                    !.translate_button = "normal",
                    !.cancel_button = "disabled"]
    ELSE LET current_file == fn_in.batch_queue[st.current_batch_index + 1]
             shown == [st EXCEPT !.batch_status = "Processing"]
         IN  IF TranslationExists(st, current_file)
             THEN process_next_batch_file(
                    [shown EXCEPT !.status = "Skipping - Translation exists",
                                  !.current_batch_index = @ + 1])
             ELSE start_single_translation(shown)

\* SubtitleTranslatorApp.start_single_translation
start_single_translation(st) ==
    LET file == fn_in.batch_queue[st.current_batch_index + 1]
        shown == [st EXCEPT !.status = "Error: Translation error"]
    IN  IF fn_in.kind[file] = "raises"
        THEN IF Len(fn_in.batch_queue) > 1
             THEN process_next_batch_file(
                    [shown EXCEPT !.current_batch_index = @ + 1])
             ELSE shown
        ELSE [st EXCEPT !.runs = Append(@, NewRun(file)),
                        !.subtitle_processor = Len(st.runs) + 1]

\* SubtitleTranslatorApp.update_progress
update_progress(st, value) ==
    IF value # 100 THEN st
    ELSE IF st.current_batch_index >= Len(fn_in.batch_queue) - 1
         THEN [st EXCEPT !.status = "All files completed successfully!",
                         !.translate_button = "normal",
                         !.cancel_button = "disabled"]
         ELSE process_next_batch_file([st EXCEPT !.current_batch_index = @ + 1])

\* SubtitleTranslatorApp.start_translation
start_translation(st) ==
    process_next_batch_file(
        [st EXCEPT !.translate_button = "disabled",
                   !.cancel_button = "normal",
                   !.current_batch_index = 0,
                   !.cancel_invoked = FALSE,
                   !.clicks = @ + 1])

\* SubtitleTranslatorApp.cancel_translation
cancel_translation(st) ==
    IF st.subtitle_processor # 0
    THEN [st EXCEPT !.runs[st.subtitle_processor].cancel_flag = TRUE,
                    !.status = "Translation cancelled",
                    !.translate_button = "normal",
                    !.cancel_button = "disabled",
                    !.current_batch_index = IF fn_in.batch_mode THEN 0 ELSE @,
                    !.cancel_invoked = TRUE]
    ELSE [st EXCEPT !.cancel_invoked = TRUE]

InitQueue ==
    /\ \E n \in 1..MaxQueue, mode \in BOOLEAN :
        \E kinds \in [1..n -> FileKinds] :
            fn_in = [batch_queue |-> [i \in 1..n |-> i],
                     kind |-> kinds,
                     batch_mode |-> mode]
    /\ fn_out = [current_batch_index |-> 0,
                 subtitle_processor |-> 0,
                 runs |-> <<>>,
                 written |-> <<>>,
                 translate_button |-> "normal",
                 cancel_button |-> "disabled",
                 batch_status |-> "Ready",
                 status |-> "Ready",
                 cancel_invoked |-> FALSE,
                 clicks |-> 0]
    /\ doc = <<>>
    /\ out_file = [exists |-> FALSE, entries |-> <<>>]
    /\ out_before = out_file
    /\ file_path = SrtPath
    /\ block_limit = 0
    /\ load_outcome = [e \in Range(EncodingOrder) |-> "ok"]
    /\ Constructed

\* the user presses the translate button
StartTranslation ==
    /\ fn_out.translate_button = "normal"
    /\ fn_out.clicks < MaxStartClicks
    /\ fn_out' = start_translation(fn_out)
    /\ UNCHANGED <<fn_in, doc, out_file, out_before, pc, cancel_flag, subs,
                   total_subtitles, processed_subtitles, completed_batches,
                   start_idx, translated_subs, batch_texts, translated_texts,
                   tries, futures, batch_results, calls, progress_log,
                   status_log, load_vars, runs_vars, gate_vars>>

\* the user presses the cancel button
CancelTranslation ==
    /\ fn_out.cancel_button = "normal"
    /\ fn_out' = cancel_translation(fn_out)
    /\ UNCHANGED <<fn_in, doc, out_file, out_before, pc, cancel_flag, subs,
                   total_subtitles, processed_subtitles, completed_batches,
                   start_idx, translated_subs, batch_texts, translated_texts,
                   tries, futures, batch_results, calls, progress_log,
                   status_log, load_vars, runs_vars, gate_vars>>

\* _translate_process up to the loop: the file is loaded, or an exception
\* ends the thread with an error status
WorkerLoads ==
    /\ \E r \in DOMAIN fn_out.runs, ok \in BOOLEAN :
        /\ fn_out.runs[r].pc = "start"
        /\ fn_out' =
            IF ~ok
            THEN [fn_out EXCEPT !.runs[r].pc = "failed", !.status = "Error"]
            ELSE IF fn_in.kind[fn_out.runs[r].file] = "empty"
                 THEN [fn_out EXCEPT !.runs[r].pc = "writing"]
                 ELSE [fn_out EXCEPT !.runs[r].pc = "loop",
                                     !.runs[r].left = MaxFileBatches]
    /\ UNCHANGED <<fn_in, doc, out_file, out_before, pc, cancel_flag, subs,
                   total_subtitles, processed_subtitles, completed_batches,
                   start_idx, translated_subs, batch_texts, translated_texts,
                   tries, futures, batch_results, calls, progress_log,
                   status_log, load_vars, runs_vars, gate_vars>>

\* one turn of the loop of _translate_process: the cancel check, the batch,
\* the progress callback and the batch status
WorkerBatch ==
    /\ \E r \in DOMAIN fn_out.runs, ok \in BOOLEAN :
        /\ fn_out.runs[r].pc = "loop"
        /\ fn_out' =
            IF fn_out.runs[r].cancel_flag
            THEN [fn_out EXCEPT !.runs[r].pc = "cancelled",
                                !.status = "Translation cancelled"]
            ELSE IF ~ok
            THEN [fn_out EXCEPT !.runs[r].pc = "failed", !.status = "Error"]
            ELSE LET left == fn_out.runs[r].left - 1
                     value == ((MaxFileBatches - left) * 100) \div MaxFileBatches
                     called ==
                        update_progress(
                            [fn_out EXCEPT
                                !.runs[r].left = left,
                                !.runs[r].pc = IF left = 0 THEN "writing"
                                                           ELSE "loop"],
                            value)
                 IN  [called EXCEPT !.status = "Completed batch"]
    /\ UNCHANGED <<fn_in, doc, out_file, out_before, pc, cancel_flag, subs,
                   total_subtitles, processed_subtitles, completed_batches,
                   start_idx, translated_subs, batch_texts, translated_texts,
                   tries, futures, batch_results, calls, progress_log,
                   status_log, load_vars, runs_vars, gate_vars>>

\* the output file is written, or the write raises
WorkerWrites ==
    /\ \E r \in DOMAIN fn_out.runs, ok \in BOOLEAN :
        /\ fn_out.runs[r].pc = "writing"
        /\ fn_out' =
            IF ok
            THEN [fn_out EXCEPT !.runs[r].pc = "final",
                                !.written = Append(@, fn_out.runs[r].file)]
            ELSE [fn_out EXCEPT !.runs[r].pc = "failed", !.status = "Error"]
    /\ UNCHANGED <<fn_in, doc, out_file, out_before, pc, cancel_flag, subs,
                   total_subtitles, processed_subtitles, completed_batches,
                   start_idx, translated_subs, batch_texts, translated_texts,
                   tries, futures, batch_results, calls, progress_log,
                   status_log, load_vars, runs_vars, gate_vars>>

\* the completion status and progress_callback(100)
WorkerFinal ==
    /\ \E r \in DOMAIN fn_out.runs :
        /\ fn_out.runs[r].pc = "final"
        /\ fn_out' =
            update_progress(
                [fn_out EXCEPT !.runs[r].pc = "completed",
                               !.status = "Translation completed successfully!"],
                100)
    /\ UNCHANGED <<fn_in, doc, out_file, out_before, pc, cancel_flag, subs,
                   total_subtitles, processed_subtitles, completed_batches,
                   start_idx, translated_subs, batch_texts, translated_texts,
                   tries, futures, batch_results, calls, progress_log,
                   status_log, load_vars, runs_vars, gate_vars>>

WorkerStep == WorkerLoads \/ WorkerBatch \/ WorkerWrites \/ WorkerFinal

NextQueue ==
    \/ StartTranslation
    \/ CancelTranslation
    \/ WorkerLoads
    \/ WorkerBatch
    \/ WorkerWrites
    \/ WorkerFinal

SpecQueue == InitQueue /\ [][NextQueue]_vars /\ WF_vars(WorkerStep)

(***************************************************************************)
(* SubtitleProcessor._clean_subtitle_text on texts written out character   *)
(* by character.  The character "F" stands for the four letters "font",    *)
(* "a" for any other printing character, " " and "\n" are whitespace.      *)
(***************************************************************************)
TextChars == {"<", ">", "/", "F", "a", " ", "\n"}

Whitespace == {" ", "\n"}

\* the position of the first ">" at or after position i, 0 when there is none
NextClose(str, i) ==
    IF \E k \in i..Len(str) : str[k] = ">"
    THEN CHOOSE k \in i..Len(str) :
            /\ str[k] = ">"
            /\ \A m \in i..(k - 1) : str[m] # ">"
    ELSE 0

RECURSIVE SubFontOpen(_, _)
\* re.sub(r'<font[^>]*>', '', text), scanning from position i
SubFontOpen(str, i) ==
    IF i > Len(str) THEN <<>>
    ELSE IF /\ StartsWithAt(str, i, <<"<", "F">>)
            /\ NextClose(str, i + 2) # 0
         THEN SubFontOpen(str, NextClose(str, i + 2) + 1)
         ELSE <<str[i]>> \o SubFontOpen(str, i + 1)

RECURSIVE SubTagFirstOnly(_, _)
\* re.sub(r'<[^>]+>', '', text, count=1): only the first tag goes
SubTagFirstOnly(str, i) ==
    IF i > Len(str) THEN <<>>
    ELSE IF /\ str[i] = "<"
            /\ i + 1 <= Len(str)
            /\ str[i + 1] # ">"
            /\ NextClose(str, i + 2) # 0
         THEN SubSeq(str, NextClose(str, i + 2) + 1, Len(str))
         ELSE <<str[i]>> \o SubTagFirstOnly(str, i + 1)

RECURSIVE SubTag(_, _)
\* re.sub(r'<[^>]+>', '', text), scanning from position i
SubTag(str, i) ==
    IF i > Len(str) THEN <<>>
    ELSE IF /\ str[i] = "<"
            /\ i + 1 <= Len(str)
            /\ str[i + 1] # ">"
            /\ NextClose(str, i + 2) # 0
         THEN SubTag(str, NextClose(str, i + 2) + 1)
         ELSE <<str[i]>> \o SubTag(str, i + 1)

RECURSIVE SplitJoin(_, _, _)
\* ' '.join(text.split()): the words, with one space between two of them
\* (started = a word has been seen, pending = whitespace followed it)
SplitJoin(str, started, pending) ==
    IF str = <<>> THEN <<>>
    ELSE IF str[1] \in Whitespace THEN SplitJoin(Tail(str), started, started)
    ELSE (IF pending THEN <<" ">> ELSE <<>>) \o <<str[1]>>
            \o SplitJoin(Tail(str), TRUE, FALSE)

RECURSIVE Strip(_)
\* str.strip()
Strip(str) ==
    IF str # <<>> /\ str[1] \in Whitespace THEN Strip(Tail(str))
    ELSE IF str # <<>> /\ str[Len(str)] \in Whitespace
         THEN Strip(SubSeq(str, 1, Len(str) - 1))
         ELSE str

\* SubtitleProcessor._clean_subtitle_text, character by character
CleanText(str) ==
    LET t1 == SubFontOpen(str, 1)
        t2 == SubLiteral(t1, 1, <<"<", "/", "F", ">">>)
        t3 == SubTag(t2, 1)
        t4 == SplitJoin(t3, FALSE, FALSE)
    IN  Strip(t4)

InitClean ==
    /\ fn_in \in UNION {[1..n -> TextChars] : n \in 0..MaxTextLen}
    /\ fn_out = [done |-> FALSE, once |-> <<>>, twice |-> <<>>]
    /\ doc = <<>>
    /\ out_file = [exists |-> FALSE, entries |-> <<>>]
    /\ out_before = out_file
    /\ file_path = SrtPath
    /\ block_limit = 0
    /\ load_outcome = [e \in Range(EncodingOrder) |-> "ok"]
    /\ Constructed

\* the text is cleaned, and the result is cleaned again
CleanTwice ==
    /\ ~fn_out.done
    /\ fn_out' = [done |-> TRUE,
                  once |-> CleanText(fn_in),
                  twice |-> CleanText(CleanText(fn_in))]
    /\ UNCHANGED <<fn_in, doc, out_file, out_before, pc, cancel_flag, subs,
                   total_subtitles, processed_subtitles, completed_batches,
                   start_idx, translated_subs, batch_texts, translated_texts,
                   tries, futures, batch_results, calls, progress_log,
                   status_log, load_vars, runs_vars, gate_vars>>
NextClean == CleanTwice

SpecClean == InitClean /\ [][NextClean]_vars

(***************************************************************************)
(* GPTTranslator.translate for texts that fit in one sub-batch, answered   *)
(* with every item present in any order.                                   *)
(***************************************************************************)
\* the orders in which n items can be listed
Orders(n) == {f \in [1..n -> 1..n] : \A a, b \in 1..n : f[a] = f[b] => a = b}

InitReply ==
    /\ \E n \in 1..MaxReplyTexts : \E order \in Orders(n) :
            LET texts == BatchTexts(Document("shifted", n))
                full == Answer(TextArray(texts))
            IN  fn_in = [texts |-> texts,
                         response |-> Reply([i \in 1..n |-> full[order[i]]])]
    /\ fn_out = [done |-> FALSE, returned |-> <<>>]
    /\ doc = <<>>
    /\ out_file = [exists |-> FALSE, entries |-> <<>>]
    /\ out_before = out_file
    /\ file_path = SrtPath
    /\ block_limit = 0
    /\ load_outcome = [e \in Range(EncodingOrder) |-> "ok"]
    /\ Constructed

\* translate(texts, target_language): the one future returns the parsed
\* pairs, batch_results is extended with them, sorted, and the texts returned
TranslateOneBatch ==
    /\ ~fn_out.done
    /\ fn_out' = [done |-> TRUE,
                  returned |-> SortedTexts(ParseResponse(fn_in.response).pairs)]
    /\ UNCHANGED <<fn_in, doc, out_file, out_before, pc, cancel_flag, subs,
                   total_subtitles, processed_subtitles, completed_batches,
                   start_idx, translated_subs, batch_texts, translated_texts,
                   tries, futures, batch_results, calls, progress_log,
                   status_log, load_vars, runs_vars, gate_vars>>
NextReply == TranslateOneBatch

SpecReply == InitReply /\ [][NextReply]_vars

\* the run has left the loading part of _translate_process
PastLoading == pc \notin {"idle", "started"}

\* the run ended in the handler before any batch was dispatched
FailedBeforeBatches ==
    /\ pc = "failed"
    /\ tries = 0
    /\ futures = <<>>
    /\ progress_log = <<>>
    /\ out_file = out_before
    /\ status_log = <<[kind |-> "error"]>>

\* the path ends in ".srt" in any mix of upper and lower case
EndsInDotSrt(path) ==
    /\ Len(path) >= 4
    /\ path[Len(path) - 3] = "."
    /\ path[Len(path) - 2] \in {"s", "S"}
    /\ path[Len(path) - 1] \in {"r", "R"}
    /\ path[Len(path)] \in {"t", "T"}

\* C14: the destination path holds either what it held before the run or
\* the complete new content, never a strict prefix of it.
C14_OutputReplacedAtomically ==
    \/ out_file = out_before
    \/ /\ pc \in {"writing", "completed", "write_failed"}
       /\ out_file = [exists |-> TRUE, entries |-> translated_subs]

\* C17: a path that does not end in .srt (in any case) fails the run before
\* the file is opened: no pysrt.open, no translator call, no output, and an
\* error message on the status sink.
C17_WrongExtensionFailsEarly ==
    (PastLoading /\ ~EndsInDotSrt(file_path))
        => (FailedBeforeBatches /\ opened = <<>>)

\* a run on movie.srt.bak that ended in the handler
C17_Witness ==
    /\ pc = "failed"
    /\ file_path = <<"m", "o", "v", "i", "e", ".", "s", "r", "t", ".", "b", "a", "k">>
    /\ status_log # <<>>

\* C18: the encodings are tried in the order utf-8, latin-1, cp1252,
\* iso-8859-1 up to the first that loads and no further; the run fails
\* before any batch work exactly when all four failed.
C18_EncodingsInOrder ==
    (PastLoading /\ EndsInDotSrt(file_path))
        => /\ Len(opened) >= 1
           /\ opened = SubSeq(<<"utf-8", "latin-1", "cp1252", "iso-8859-1">>,
                              1, Len(opened))
           /\ \A i \in 1..(Len(opened) - 1) : load_outcome[opened[i]] # "ok"
           /\ IF \E e \in DOMAIN load_outcome : load_outcome[e] = "ok"
              THEN /\ load_outcome[opened[Len(opened)]] = "ok"
                   /\ ~(pc = "failed" /\ tries = 0)
              ELSE /\ Len(opened) = 4
                   /\ FailedBeforeBatches

\* a file that loads only under the third encoding, translated to the end
C18_Witness ==
    /\ pc = "completed"
    /\ opened = <<"utf-8", "latin-1", "cp1252">>
    /\ load_outcome["iso-8859-1"] = "ok"

RECURSIVE Concat(_)
Concat(seqs) == IF seqs = <<>> THEN <<>> ELSE seqs[1] \o Concat(Tail(seqs))

\* C12: N entries are sliced into ceil(N/B) batches, every batch but the
\* last of exactly B entries, the last of 1..B, and the batches put one
\* after the other are the original sequence (so they are contiguous and
\* disjoint).
C12_BatchesPartition ==
    LET n == Len(fn_in.entries)
        size == fn_in.batch_size
        batches == fn_out.batches
    IN  /\ Len(Concat(batches)) <= n
        /\ Concat(batches) = SubSeq(fn_in.entries, 1, Len(Concat(batches)))
        /\ \A k \in 1..(Len(batches) - 1) : Len(batches[k]) = size
        /\ \A k \in 1..Len(batches) : Len(batches[k]) \in 1..size
        /\ fn_out.done
             => /\ Len(batches) = (n + size - 1) \div size
                /\ Concat(batches) = fn_in.entries

\* 7 entries sliced by 3 into 3, 3, 1
C12_Witness ==
    /\ fn_out.done
    /\ Len(fn_in.entries) = 7
    /\ fn_in.batch_size = 3
    /\ Len(fn_out.batches) = 3

\* C13 as stated: when B does not divide N the last batch has
\* N - B*(N div B - 1) entries.
C13_LastBatchSizeAsStated ==
    LET n == Len(fn_in.entries)
        size == fn_in.batch_size
    IN  (fn_out.done /\ n % size # 0)
            => Len(fn_out.batches[Len(fn_out.batches)]) = n - size * (n \div size - 1)

\* C13 amended: when B does not divide N the last batch has
\* N - B*(N div B) entries, the remainder of N by B.
C13_LastBatchIsRemainder ==
    LET n == Len(fn_in.entries)
        size == fn_in.batch_size
    IN  (fn_out.done /\ n % size # 0)
            => /\ fn_out.batches # <<>>
               /\ Len(fn_out.batches[Len(fn_out.batches)]) = n - size * (n \div size)

\* 8 entries sliced by 5: the last batch has 3
C13_Witness ==
    /\ fn_out.done
    /\ Len(fn_in.entries) = 8
    /\ fn_in.batch_size = 5
    /\ Len(fn_out.batches[Len(fn_out.batches)]) = 3

\* C16: _generate_jellyfin_name gives "<video name>.<es|en>[.default]
\* [.forced][.sdh].srt": the stream number and the language marker are gone
\* from the video name, "_Spanish" and ".spa" give "es", ".eng" gives "en",
\* and the true flags follow in the order default, forced, sdh.
C16_JellyfinName ==
    (fn_out.done /\ fn_in.marker # <<>>)
        => fn_out.name =
              JoinDots(<<fn_in.video>>
                       \o <<IF fn_in.marker = <<".", "e", "n", "g">> THEN <<"e", "n">> ELSE <<"e", "s">>>>
                       \o (IF ~fn_in.flags.none /\ fn_in.flags.default THEN <<<<"d", "e", "f", "a", "u", "l", "t">>>> ELSE <<>>)
                       \o (IF ~fn_in.flags.none /\ fn_in.flags.forced THEN <<<<"f", "o", "r", "c", "e", "d">>>> ELSE <<>>)
                       \o (IF ~fn_in.flags.none /\ fn_in.flags.sdh THEN <<<<"s", "d", "h">>>> ELSE <<>>)
                       \o <<<<"s", "r", "t">>>>)

\* C15: _get_language_code gives the table's code for a known language name
\* whatever its case, and otherwise the lowercased name cut to 3 characters;
\* _create_subtitle_path gives the path without its last extension followed
\* by ".<code>.srt".
C15_CodeAndPath ==
    fn_out.done =>
        LET lower == Lower(fn_in.target_language)
            known == {i \in 1..Len(LANGUAGE_CODES) : LANGUAGE_CODES[i][1] = lower}
        IN  /\ \A i \in known : fn_out.lang_code = LANGUAGE_CODES[i][2]
            /\ known = {} =>
                  /\ Len(fn_out.lang_code) = Min(3, Len(lower))
                  /\ \A k \in 1..Len(fn_out.lang_code) : fn_out.lang_code[k] = lower[k]
            /\ fn_out.output_path =
                  fn_in.path.dir \o fn_in.path.base \o <<".">>
                      \o fn_out.lang_code \o <<".", "s", "r", "t">>

\* "Spanish" gives "spa" and "/path/to/movie.mkv" gives "/path/to/movie.spa.srt"
C15_Witness ==
    /\ fn_out.done
    /\ fn_in.target_language = <<"S", "p", "a", "n", "i", "s", "h">>
    /\ fn_in.path = [dir |-> <<"/", "p", "a", "t", "h", "/", "t", "o", "/">>, base |-> <<"m", "o", "v", "i", "e">>, ext |-> <<".", "m", "k", "v">>]
    /\ fn_out.lang_code = <<"s", "p", "a">>
    /\ fn_out.output_path = <<"/", "p", "a", "t", "h", "/", "t", "o", "/", "m", "o", "v", "i", "e", ".", "s", "p", "a", ".", "s", "r", "t">>

\* C11: once every batch of every run has succeeded, processed_subtitles
\* equals total_subtitles, whatever the sequence of translate() invocations.
C11_ProcessedEqualsTotal ==
    (threads # <<>> /\ \A t \in 1..Len(threads) : threads[t].pc = "completed")
        => processed_subtitles = total_subtitles

\* the futures whose _translate_batch a worker is executing
InFlight == {j \in DOMAIN futures : futures[j].state = "running"}

\* C19: at every moment at most 3 outbound translation calls are in flight.
C19_AtMostThreeInFlight == Cardinality(InFlight) <= max_workers

\* three calls in flight while further sub-batches wait for a worker
C19_Witness ==
    /\ Cardinality(InFlight) = max_workers
    /\ \E j \in DOMAIN futures : futures[j].state = "queued"

\* C20: any two passes through the rate gate are at least
\* min_request_interval apart, and a thread that reads or writes
\* last_request_time holds rate_limit_lock.
C20_PassesSpaced ==
    /\ \A i \in 1..Len(passes) : \A k \in (i + 1)..Len(passes) :
            passes[k].at - passes[i].at >= min_request_interval
    /\ \A t \in DOMAIN gate :
            gate[t].pc \in {"locked", "sleeping", "awake"} => rate_limit_lock = t

\* a thread slept in the gate and passed exactly min_request_interval after
\* another thread
C20_Witness ==
    \E i \in 1..(Len(passes) - 1) :
        /\ passes[i + 1].thread # passes[i].thread
        /\ passes[i + 1].at - passes[i].at = min_request_interval

\* the text holds something the pattern <[^>]+> matches
HasTag(str) ==
    \E i \in 1..Len(str), k \in 1..Len(str) :
        /\ k >= i + 2
        /\ str[i] = "<"
        /\ str[k] = ">"
        /\ \A m \in (i + 1)..(k - 1) : str[m] # ">"

\* two whitespace characters stand side by side
HasWhitespaceRun(str) ==
    \E i \in 1..(Len(str) - 1) : str[i] \in Whitespace /\ str[i + 1] \in Whitespace

\* the only whitespace is single spaces between two other characters
SingleSpacesOnly(str) ==
    \A i \in 1..Len(str) :
        str[i] \in Whitespace
            => /\ str[i] = " "
               /\ i > 1 /\ str[i - 1] \notin Whitespace
               /\ i < Len(str) /\ str[i + 1] \notin Whitespace

\* C22 as stated: clean(clean(t)) = clean(t), and a text with no tag and no
\* whitespace run is left unchanged.
C22_IdempotentAsStated ==
    fn_out.done =>
        /\ fn_out.twice = fn_out.once
        /\ (~HasTag(fn_in) /\ ~HasWhitespaceRun(fn_in)) => fn_out.once = fn_in

\* C22 amended: clean(clean(t)) = clean(t), and a text with no tag whose
\* only whitespace is single spaces between words is left unchanged.
C22_Idempotent ==
    fn_out.done =>
        /\ fn_out.twice = fn_out.once
        /\ (~HasTag(fn_in) /\ SingleSpacesOnly(fn_in)) => fn_out.once = fn_in

\* a text with a tag and whitespace has been cleaned to "a a", and a second
\* cleaning kept it
C22_Witness ==
    /\ fn_out.done
    /\ HasTag(fn_in)
    /\ \E i \in 1..Len(fn_in) : fn_in[i] \in Whitespace
    /\ fn_out.once = <<"a", " ", "a">>
    /\ fn_out.twice = fn_out.once

\* C23: every text handed to the translator has no <font ...> tag, no
\* generic tag, no ASS-style block and no run of whitespace.
C23_HandedTextsClean ==
    \A i \in 1..Len(batch_texts) :
        LET toks == batch_texts[i].toks IN
        /\ \A k \in 1..Len(toks) : toks[k] \notin {"font", "efont", "tag", "ass"}
        /\ \A k \in 1..(Len(toks) - 1) : ~(toks[k] = "sp" /\ toks[k + 1] = "sp")

\* C24: for texts that fit in one sub-call, translate returns one item per
\* text, item i the translation of text i, in whatever order the response
\* lists the items.
C24_ReorderedAnswerResorted ==
    fn_out.done =>
        /\ Len(fn_out.returned) = Len(fn_in.texts)
        /\ \A i \in 1..Len(fn_in.texts) :
                fn_out.returned[i] = Translation(fn_in.texts[i])

\* a response that lists the last item first has been returned in input order
C24_Witness ==
    /\ fn_out.done
    /\ Len(fn_in.texts) >= 2
    /\ fn_in.response.items[1].id = Len(fn_in.texts) - 1
    /\ fn_out.returned[1] = Translation(fn_in.texts[1])

\* the batches of the run that have been dispatched and are not yet processed
BatchesInFlight == IF pc \in {"translating", "translated"} THEN 1 ELSE 0

\* C25: the batches are dispatched concurrently to a pool of W = 3 workers:
\* while an earlier batch is in flight and fewer than W are, a later batch
\* can be dispatched; never more than W batches are in flight.
C25_BatchesDispatchedConcurrently ==
    /\ BatchesInFlight <= max_workers
    /\ (/\ pc = "translating"
        /\ ~cancel_flag
        /\ start_idx + processor_batch_size < total_subtitles
        /\ BatchesInFlight < max_workers)
            => ENABLED DispatchBatch

\* C26: once the flag is seen set at the top of the batch loop, the run
\* reports the cancelled status and nothing else: no batch is dispatched, no
\* progress value and no completion status is delivered, no file is written.
C26_CancelStopsRun ==
    /\ [][(pc = "loop" /\ cancel_flag /\ start_idx < total_subtitles)
            => /\ pc' = "cancelled"
               /\ status_log' = Append(status_log, [kind |-> "cancelled"])
               /\ UNCHANGED <<progress_log, call_vars, file_vars>>]_vars
    /\ [][pc = "cancelled"
            => UNCHANGED <<pc, sink_vars, call_vars, file_vars>>]_vars
    /\ [](pc = "cancelled"
            => /\ status_log[Len(status_log)].kind = "cancelled"
               /\ "completed" \notin StatusKinds
               /\ Len(progress_log) = completed_batches
               /\ out_file = out_before)

\* the flag was seen at the boundary after the first batch
C26_Witness ==
    /\ pc = "cancelled"
    /\ completed_batches >= 1
    /\ start_idx < total_subtitles

\* C27: in every status "Completed batch c/t (p/n subtitles)" c counts the
\* batches completed in the current run, so c <= t, and p is the sum of the
\* sizes of those c batches, also for a second translate() on the processor.
C27_BatchStatusCounts ==
    \A i \in 1..Len(status_log) :
        status_log[i].kind = "batch"
            => /\ status_log[i].c <= status_log[i].t
               /\ status_log[i].p =
                     Min(status_log[i].c * processor_batch_size, status_log[i].n)

\* batches the run has handed to _translate_batch so far
Dispatched == start_idx \div processor_batch_size + BatchesInFlight

\* C28 as stated: with a block limit L >= 1 the working set is the first
\* min(N, L) entries in their order, total_subtitles is min(N, L), and a run
\* with min(N, L) within the batch size dispatches exactly one batch.
C28_BlockLimitAsStated ==
    (block_limit >= 1 /\ PastLoading)
        => LET m == Min(Len(doc), block_limit) IN
           /\ subs = SubSeq(doc, 1, m)
           /\ total_subtitles = m
           /\ (m <= processor_batch_size /\ pc = "completed") => Dispatched = 1

\* C28 amended: as stated, the one batch being dispatched when min(N, L) is
\* at least 1; for an empty document no batch is dispatched.
C28_BlockLimit ==
    (block_limit >= 1 /\ PastLoading)
        => LET m == Min(Len(doc), block_limit) IN
           /\ subs = SubSeq(doc, 1, m)
           /\ total_subtitles = m
           /\ m <= processor_batch_size => Dispatched <= 1
           /\ (m <= processor_batch_size /\ pc = "completed")
                => Dispatched = IF m = 0 THEN 0 ELSE 1

\* a limit of 2 on 4 entries: the run completed with one batch of the first two
C28_Witness ==
    /\ pc = "completed"
    /\ block_limit = 2
    /\ Len(doc) = 4
    /\ Len(subs) = 2
    /\ completed_batches = 1

\* C29: when a sub-batch has failed for good, translate raises and returns
\* no list: a list is returned only when every sub-batch gave its result.
C29_TranslateAllOrNothing ==
    /\ [](pc = "translated"
            => \A j \in DOMAIN futures : futures[j].state = "done")
    /\ [][(pc = "translating" /\ AnyFailed)
            => /\ pc' # "translated"
               /\ translated_texts' = translated_texts]_vars

\* one sub-batch gave its result, another failed for good, and the call
\* ended with no list returned
C29_Witness ==
    /\ pc = "failed"
    /\ AnyFailed
    /\ \E j \in DOMAIN futures :
            futures[j].state = "done" /\ futures[j].result # <<>>
    /\ translated_texts = <<>>

\* C30: an original is removed only right after its copy to the new name
\* has succeeded and only with cleanup_originals; when an operation raises
\* for a file, the file under the old name is untouched, the file is entered
\* in errors, and the loop goes on to the next file.
C30_OriginalsKeptOnFailure ==
    /\ [](\A i \in 1..Len(fn_out.ops) :
            fn_out.ops[i].op = "remove"
                => /\ fn_in.cleanup_originals
                   /\ i > 1
                   /\ fn_out.ops[i - 1] =
                        [op |-> "copy2", file |-> fn_out.ops[i].file, ok |-> TRUE])
    /\ [](\A i \in 1..Len(fn_out.deleted) :
            /\ fn_in.cleanup_originals
            /\ \E k \in 1..Len(fn_out.renamed) :
                    fn_out.renamed[k][1] = fn_out.deleted[i])
    /\ [][LET file == fn_in.files[fn_out.next] IN
          fn_out'.errors # fn_out.errors
            => /\ fn_out'.errors = Append(fn_out.errors, file)
               /\ fn_out'.folder[file] = fn_out.folder[file]
               /\ fn_out'.deleted = fn_out.deleted
               /\ fn_out'.next = fn_out.next + 1]_vars
    /\ []((fn_out.next > Len(fn_in.files))
            => \A i \in 1..Len(fn_in.files) :
                LET file == fn_in.files[i] IN
                (/\ EndsWith(file, <<".", "s", "r", "t">>)
                 /\ Lower(file) # Lower(_generate_jellyfin_name(file, fn_in.flags)))
                    => \/ \E k \in 1..Len(fn_out.renamed) : fn_out.renamed[k][1] = file
                       \/ \E k \in 1..Len(fn_out.errors) : fn_out.errors[k] = file)

\* the copy of one file raised, its original is still there, and a later
\* file was renamed and its original removed
C30_Witness ==
    /\ fn_out.next > Len(fn_in.files)
    /\ \E i \in 1..Len(fn_out.ops), k \in 1..Len(fn_out.ops) :
        /\ i < k
        /\ fn_out.ops[i].op = "copy2"
        /\ ~fn_out.ops[i].ok
        /\ fn_out.folder[fn_out.ops[i].file] = fn_out.ops[i].file
        /\ fn_out.ops[k].op = "remove"
        /\ fn_out.ops[k].ok
        /\ fn_out.folder[fn_out.ops[k].file] = <<>>

\* the run has ended
Outcome == pc \in {"completed", "cancelled", "failed", "write_failed"}

\* the statuses that tell the end of a run
OutcomeStatuses ==
    {i \in 1..Len(status_log) : status_log[i].kind \in {"completed", "cancelled", "error"}}

\* C21: a started run ends completed, cancelled or failed (every outbound
\* call returning or raising); it reports exactly one of the three, and once
\* it has ended it makes no translator call, sink call or file write.
C21_RunEndsInOneOutcome ==
    /\ (pc = "started") ~> Outcome
    /\ [](Outcome
            => /\ OutcomeStatuses = {Len(status_log)}
               /\ status_log[Len(status_log)].kind =
                     CASE pc = "completed" -> "completed"
                       [] pc = "cancelled" -> "cancelled"
                       [] OTHER -> "error")
    /\ [](~Outcome => OutcomeStatuses = {})
    /\ [][Outcome => UNCHANGED <<pc, sink_vars, call_vars, file_vars>>]_vars

\* a run that was told to cancel during its last batch and ended completed
C21_Witness ==
    /\ pc = "completed"
    /\ cancel_flag
    /\ completed_batches = 1
    /\ Len(out_file.entries) = MaxLiveEntries
    /\ Cardinality(OutcomeStatuses) = 1

\* C39: with nothing to translate no outbound call is made: translate of
\* no texts submits nothing and returns no text, and a run over a document
\* with 0 entries dispatches no batch, divides by no zero total, writes an
\* output with 0 entries and ends with the completion status and progress 100.
C39_NothingToTranslate ==
    /\ Submitted(<<>>) = <<>>
    /\ SortedTexts(<<>>) = <<>>
    /\ \A i \in 1..Len(progress_log) : progress_log[i].den # 0
    /\ (doc = <<>> /\ PastLoading)
        => /\ Dispatched = 0
           /\ futures = <<>>
           /\ calls = <<>>
           /\ pc \in {"loop", "writing", "completed", "write_failed"}
           /\ pc = "completed"
                => /\ out_file = [exists |-> TRUE, entries |-> <<>>]
                   /\ status_log = <<[kind |-> "completed"]>>
                   /\ progress_log = <<Hundred>>

\* the run over an empty document has completed over an older output file
C39_Witness ==
    /\ doc = <<>>
    /\ pc = "completed"
    /\ out_before.exists
    /\ out_file.entries = <<>>

\* C37: for the path a processor is constructed with, the output path
\* differs from it for every target language; no step of a run changes that
\* path or the input file, however the run ends.
C37_InputFileUntouched ==
    /\ [](pc = "idle"
            => \A language \in TargetLanguages :
                    _create_subtitle_path(file_path, language) # file_path)
    /\ [][file_path' = file_path /\ doc' = doc]_vars

\* a run on "MOVIE.SRT" has completed and written its output, the input is
\* as it was
C37_Witness ==
    /\ pc = "completed"
    /\ file_path # SrtPath
    /\ out_file.exists
    /\ Len(out_file.entries) = Len(doc)
    /\ doc = Document("shifted", MaxLoadEntries)

\* C35: after a run of rename_subtitles in which no operation raised, the
\* content of every .srt file the folder held before the run is still the
\* content of some file: under the old name, the new name or a backup name.
C35_ContentNeverLost ==
    (fn_out.next > Len(fn_in.files) /\ fn_out.errors = <<>>)
        => \A i \in 1..Len(fn_in.files) :
            EndsWith(fn_in.files[i], <<".", "s", "r", "t">>)
                => \E n \in FolderNames : fn_out.folder[n] = fn_in.files[i]

\* C36: every name rename_subtitles produced is a fixed point of
\* _generate_jellyfin_name, and a second run with the same flags on the
\* folder the first run left renames nothing and deletes nothing.
C36_SecondRunChangesNothing ==
    /\ \A k \in 1..Len(fn_out.renamed) :
            _generate_jellyfin_name(fn_out.renamed[k][2], fn_in.flags)
                = fn_out.renamed[k][2]
    /\ fn_out.run = 2 => (fn_out.renamed = <<>> /\ fn_out.deleted = <<>>)

\* C38: the pairs preview_changes reports are, in order, the renames that
\* rename_subtitles then performs on the same folder with the same flags
\* when nothing raises, and the preview leaves every file as it was.
C38_PreviewMatchesRename ==
    /\ [](fn_out.previewed
            => /\ fn_out.renamed =
                    preview_changes(SubSeq(fn_in.files, 1, fn_out.next - 1),
                                    fn_in.flags)
               /\ fn_out.next > Len(fn_in.files)
                    => fn_out.renamed = fn_out.changes)
    /\ [][fn_out'.changes # fn_out.changes \/ fn_out'.previewed # fn_out.previewed
            => /\ fn_out'.folder = fn_out.folder
               /\ fn_out'.ops = fn_out.ops]_vars

\* three files were reported and renamed to one name, a backup was made,
\* and one file was left alone
C38_Witness ==
    /\ fn_out.previewed
    /\ fn_out.next > Len(fn_in.files)
    /\ Len(fn_out.changes) >= 3
    /\ Len(fn_out.changes) < Len(fn_in.files)
    /\ \E n \in FolderNames :
            /\ EndsWith(n, <<".", "b", "a", "k">>)
            /\ fn_out.folder[n] # <<>>

\* C34: once a run has written the translation of a queued file (a subtitle
\* file, or a video whose stream was extracted), check_existing_translation
\* finds it, so that two runs of the queue translate the file once.
C34_ExistingOutputSkipped ==
    /\ fn_out.translated >= 1
        => check_existing_translation(
                fn_in.path.dir \o fn_in.path.base \o fn_in.path.ext,
                fn_in.target_language, fn_out.files)
    /\ fn_out.run > 1 => fn_out.translated = 1

\* the runs of SubtitleProcessor whose thread has not ended
ActiveRuns ==
    {r \in DOMAIN fn_out.runs :
        fn_out.runs[r].pc \in {"start", "loop", "writing", "final"}}

\* C31: in a queue of several files that is not cancelled, at most one run
\* is active, no file is started twice, no file is passed over without
\* being skipped for a reason or started, and current_batch_index moves
\* past a started file once, when the run of that file has completed.
C31_QueueAdvancesOncePerRun ==
    (Len(fn_in.batch_queue) > 1 /\ ~fn_out.cancel_invoked)
        => /\ Cardinality(ActiveRuns) <= 1
           /\ \A a, b \in DOMAIN fn_out.runs :
                a # b => fn_out.runs[a].file # fn_out.runs[b].file
           /\ \A r \in DOMAIN fn_out.runs :
                \A g \in 1..(fn_out.runs[r].file - 1) :
                    \/ fn_in.kind[g] \in {"existing", "raises"}
                    \/ \E q \in DOMAIN fn_out.runs : fn_out.runs[q].file = g
           /\ \A g \in 1..fn_out.current_batch_index :
                \/ fn_in.kind[g] \in {"existing", "raises"}
                \/ \E q \in DOMAIN fn_out.runs :
                        /\ fn_out.runs[q].file = g
                        /\ fn_out.runs[q].pc = "completed"

\* C32: in a queue of several files, from the call of cancel_translation
\* until the next start_translation no run is started and no output file is
\* written.
C32_NothingStartedAfterCancel ==
    [][(/\ Len(fn_in.batch_queue) > 1
        /\ fn_out.cancel_invoked
        /\ fn_out'.cancel_invoked)
            => /\ Len(fn_out'.runs) = Len(fn_out.runs)
               /\ fn_out'.written = fn_out.written]_vars

\* C33: in a queue of several files, once the run of a file has failed the
\* queue goes on and comes to its end, with the translate button enabled
\* again (unless the user cancels).
C33_FailureMovesOn ==
    (/\ Len(fn_in.batch_queue) > 1
     /\ \E r \in DOMAIN fn_out.runs : fn_out.runs[r].pc = "failed")
        ~> (fn_out.cancel_invoked \/ fn_out.translate_button = "normal")

====
